---- MODULE Spec2Model ----
(***************************************************************************)
(* Model of proplot/internals/defaults.py: the child-settings table        *)
(* _rc_children, the version-conditional additions to it, the synonym      *)
(* groups _rc_synonyms and the loop that merges every synonym group into   *)
(* the children table.  The module body of defaults.py is modelled         *)
(* statement by statement (pc is the source line about to run); the loop   *)
(* at lines 1453-1456 takes one step per iteration of its inner `for`.     *)
(***************************************************************************)
EXTENDS Integers, Sequences, FiniteSets, TLC

VARIABLES
    host,                     \* _rc_matplotlib_default: which gate keys it has
    pc,                       \* source line of defaults.py about to run
    _rc_children,             \* dict: key -> tuple of child keys
    _rc_synonyms,             \* tuple of tuples of keys
    _rc_matplotlib_override,  \* dict: matplotlib key -> default
    declared,                 \* history: _rc_children as the declarations left it
    gi,                       \* index of _keys in _rc_synonyms (outer for)
    ki,                       \* index of _key in _keys (inner for)
    values,                   \* settings store: key -> value
    nsets,                    \* number of store calls so far
    outcome,                  \* result of the last store call
    options,                  \* _kwargs_to_args: the declared slots
    args,                     \* _kwargs_to_args: list of positional values
    allow_extra,              \* _kwargs_to_args: keyword-only flag
    kwargs,                   \* _kwargs_to_args: dict of keyword arguments
    idx,                      \* _kwargs_to_args: slots resolved so far
    warned,                   \* slots for which _warn_proplot was called
    apc,                      \* position in _kwargs_to_args
    args0,                    \* history: positional arguments of the call
    kwargs0,                  \* history: keyword arguments of the call
    call,                     \* a call of _not_none or _pop_items: its arguments
    result                    \* what that call gave back

argvars ==
    << options, args, allow_extra, kwargs, idx, warned, apc, args0, kwargs0,
       call, result >>

vars ==
    << host, pc, _rc_children, _rc_synonyms, _rc_matplotlib_override,
       declared, gi, ki, values, nsets, outcome, argvars >>

----------------------------------------------------------------------------
(* Bounds *)

\* store assignments made after initialisation
MaxSets == 1
\* synonym groups in a generated _rc_synonyms
MaxGroups == 2
\* children in a generated entry of _rc_children
MaxDeclared == 1
\* slots in a generated options list of _kwargs_to_args
MaxSlots == 2
\* positional arguments in a generated call of _kwargs_to_args
MaxArgs == 3
\* keyword arguments in a generated call of _kwargs_to_args
MaxKw == 2

----------------------------------------------------------------------------
(* Static data of defaults.py *)

\* Python's None
None == "None"

\* A number of the default tables is written in thousandths, so that 0.6 is
\* 600 and the int 4 equals the float 4.0 as in Python; a * b of two such
\* numbers:
Times(a, b) == (a * b) \div 1000

\* lines 20-50 and the font lists of lines 57-140
BLACK == "black"

CYCLE == "colorblind"

CMAPCYC == "twilight"

CMAPDIV == "BuRd"

CMAPSEQ == "Fire"

CMAPCAT == "colorblind10"

FRAMEALPHA == 800

FONTNAME == "sans-serif"

FONTSIZE == 9000

GRIDALPHA == 100

GRIDBELOW == "line"

GRIDPAD == 3000

GRIDRATIO == 500

\* line 34 with a dotted line
GRIDSTYLEDotted == ":"

GRIDSTYLE == "-"

LABELPAD == 4000

LARGESIZE == "med-large"

LINEWIDTH == 600

MARGIN == 50

MATHTEXT == FALSE

SMALLSIZE == "medium"

TICKDIR == "out"

TICKLEN == 4000

TICKLENRATIO == 500

TICKMINOR == TRUE

TICKPAD == 2000

TICKWIDTHRATIO == 800

TITLEPAD == 5000

WHITE == "white"

ZLINES == 2000

ZPATCHES == 1000

FONTS_CURSIVE == << "TeX Gyre Chorus", "Apple Chancery", "Felipa", "Sand", "Script MT", "Textile", "Zapf Chancery", "cursive" >>

FONTS_FANTASY == << "TeX Gyre Adventor", "Avant Garde", "Charcoal", "Chicago", "Comic Sans MS", "Futura", "Humor Sans", "Impact", "Optima", "Western", "xkcd", "fantasy" >>

FONTS_MONOSPACE == << "TeX Gyre Cursor", "DejaVu Sans Mono", "Bitstream Vera Sans Mono", "Computer Modern Typewriter", "Andale Mono", "Courier New", "Courier", "Fixed", "Nimbus Mono L", "Terminal", "monospace" >>

FONTS_SANSSERIF == << "TeX Gyre Heros", "DejaVu Sans", "Bitstream Vera Sans", "Computer Modern Sans Serif", "Arial", "Avenir", "Fira Math", "Fira Sans", "Frutiger", "Geneva", "Gill Sans", "Helvetica", "Lucid", "Lucida Grande", "Myriad Pro", "Noto Sans", "Roboto", "Source Sans Pro", "Tahoma", "Trebuchet MS", "Ubuntu", "Univers", "Verdana", "sans-serif" >>

FONTS_SERIF == << "TeX Gyre Schola", "TeX Gyre Bonum", "TeX Gyre Termes", "TeX Gyre Pagella", "DejaVu Serif", "Bitstream Vera Serif", "Computer Modern Roman", "Bookman", "Century Schoolbook L", "Charter", "ITC Bookman", "New Century Schoolbook", "Nimbus Roman No9 L", "Noto Serif", "Palatino", "Source Serif Pro", "Times New Roman", "Times", "Utopia", "serif" >>

\* Python compares str by code point; sorted() at line 1456 orders keys this
\* way.  Every key of the model, in that order.
KeyOrder ==
    <<
      "A", "B", "C", "D", "abc.size", "axes.axisbelow", "axes.edgecolor",
      "axes.formatter.limits", "axes.formatter.min_exponent",
      "axes.formatter.offset_threshold", "axes.formatter.use_locale",
      "axes.formatter.use_mathtext", "axes.formatter.useoffset", "axes.labelcolor",
      "axes.labelpad", "axes.labelsize", "axes.labelweight", "axes.linewidth",
      "axes.margin", "axes.titlecolor", "axes.titlepad", "axes.titlesize",
      "axes.titleweight", "axes.xmargin", "axes.ymargin", "bottomlabel.size", "cmap",
      "cmap.lut", "cmap.sequential", "colorbar.edgecolor", "figure.titlesize",
      "font.family", "font.large", "font.largesize", "font.name", "font.small",
      "font.smallsize", "formatter.limits", "formatter.min_exponent",
      "formatter.offset_threshold", "formatter.use_locale", "formatter.use_mathtext",
      "formatter.use_offset", "grid.alpha", "grid.below", "grid.color",
      "grid.labelcolor", "grid.labelpad", "grid.labelsize", "grid.labelweight",
      "grid.linestyle", "grid.linewidth", "grid.pad", "grid.style", "grid.width",
      "gridminor.alpha", "gridminor.color", "gridminor.linestyle",
      "gridminor.linewidth", "gridminor.style", "gridminor.width", "hatch.color",
      "image.cmap", "image.lut", "label.color", "label.pad", "label.size",
      "label.weight", "leftlabel.size", "legend.edgecolor", "legend.fontsize",
      "margin", "mathtext.fallback", "meta.color", "meta.edgecolor",
      "meta.linewidth", "meta.width", "rightlabel.size", "suptitle.size",
      "tick.color", "tick.dir", "tick.labelcolor", "tick.labelpad", "tick.labelsize",
      "tick.labelweight", "tick.len", "tick.linewidth", "tick.minor", "tick.pad",
      "tick.width", "title.color", "title.pad", "title.size", "title.weight",
      "toplabel.size", "xtick.color", "xtick.direction", "xtick.labelcolor",
      "xtick.labelsize", "xtick.major.pad", "xtick.major.size", "xtick.major.width",
      "xtick.minor.pad", "xtick.minor.visible", "ytick.color", "ytick.direction",
      "ytick.labelcolor", "ytick.labelsize", "ytick.major.pad", "ytick.major.size",
      "ytick.major.width", "ytick.minor.pad", "ytick.minor.visible"
    >>

ShippedChildren ==
       ("font.smallsize" :> <<"tick.labelsize", "xtick.labelsize", "ytick.labelsize", "axes.labelsize", "legend.fontsize", "grid.labelsize">>)
    @@ ("font.largesize" :> <<"abc.size", "figure.titlesize", "suptitle.size", "axes.titlesize", "title.size", "leftlabel.size", "toplabel.size", "rightlabel.size", "bottomlabel.size">>)
    @@ ("meta.color" :> <<"axes.edgecolor", "axes.labelcolor", "legend.edgecolor", "colorbar.edgecolor", "tick.labelcolor", "hatch.color", "xtick.color", "ytick.color">>)
    @@ ("meta.width" :> <<"axes.linewidth", "tick.width", "tick.linewidth", "xtick.major.width", "ytick.major.width", "grid.width", "grid.linewidth">>)
    @@ ("axes.margin" :> <<"axes.xmargin", "axes.ymargin">>)
    @@ ("grid.color" :> <<"gridminor.color", "grid.labelcolor">>)
    @@ ("grid.alpha" :> <<"gridminor.alpha">>)
    @@ ("grid.linewidth" :> <<"gridminor.linewidth">>)
    @@ ("grid.linestyle" :> <<"gridminor.linestyle">>)
    @@ ("tick.color" :> <<"xtick.color", "ytick.color">>)
    @@ ("tick.dir" :> <<"xtick.direction", "ytick.direction">>)
    @@ ("tick.len" :> <<"xtick.major.size", "ytick.major.size">>)
    @@ ("tick.minor" :> <<"xtick.minor.visible", "ytick.minor.visible">>)
    @@ ("tick.pad" :> <<"xtick.major.pad", "xtick.minor.pad", "ytick.major.pad", "ytick.minor.pad">>)
    @@ ("tick.width" :> <<"xtick.major.width", "ytick.major.width">>)
    @@ ("tick.labelsize" :> <<"xtick.labelsize", "ytick.labelsize">>)

ShippedSynonyms ==
    <<
      <<"cmap", "image.cmap", "cmap.sequential">>,
      <<"cmap.lut", "image.lut">>,
      <<"font.name", "font.family">>,
      <<"font.small", "font.smallsize">>,
      <<"font.large", "font.largesize">>,
      <<"formatter.limits", "axes.formatter.limits">>,
      <<"formatter.use_locale", "axes.formatter.use_locale">>,
      <<"formatter.use_mathtext", "axes.formatter.use_mathtext">>,
      <<"formatter.min_exponent", "axes.formatter.min_exponent">>,
      <<"formatter.use_offset", "axes.formatter.useoffset">>,
      <<"formatter.offset_threshold", "axes.formatter.offset_threshold">>,
      <<"grid.below", "axes.axisbelow">>,
      <<"grid.labelpad", "grid.pad">>,
      <<"grid.linewidth", "grid.width">>,
      <<"grid.linestyle", "grid.style">>,
      <<"gridminor.linewidth", "gridminor.width">>,
      <<"gridminor.linestyle", "gridminor.style">>,
      <<"label.color", "axes.labelcolor">>,
      <<"label.pad", "axes.labelpad">>,
      <<"label.size", "axes.labelsize">>,
      <<"label.weight", "axes.labelweight">>,
      <<"margin", "axes.margin">>,
      <<"meta.width", "meta.linewidth">>,
      <<"meta.color", "meta.edgecolor">>,
      <<"tick.labelpad", "tick.pad">>,
      <<"tick.labelsize", "grid.labelsize">>,
      <<"tick.labelcolor", "grid.labelcolor">>,
      <<"tick.labelweight", "grid.labelweight">>,
      <<"tick.linewidth", "tick.width">>,
      <<"title.pad", "axes.titlepad">>,
      <<"title.size", "axes.titlesize">>,
      <<"title.weight", "axes.titleweight">>
    >>

\* keys of _rc_proplot_definition
DefinitionKeys ==
    {
      "abc", "abc.bbox", "abc.bboxalpha", "abc.bboxcolor", "abc.bboxpad",
      "abc.bboxstyle", "abc.border", "abc.borderwidth", "abc.color", "abc.loc",
      "abc.size", "abc.titlepad", "abc.weight", "autoformat", "axes.alpha",
      "axes.inbounds", "axes.margin", "borders", "borders.alpha", "borders.color",
      "borders.linewidth", "borders.zorder", "bottomlabel.color", "bottomlabel.pad",
      "bottomlabel.rotation", "bottomlabel.size", "bottomlabel.weight", "cmap",
      "cmap.autodiverging", "cmap.cyclic", "cmap.discrete", "cmap.diverging",
      "cmap.inbounds", "cmap.levels", "cmap.listedthresh", "cmap.lut",
      "cmap.qualitative", "cmap.robust", "cmap.sequential", "coast", "coast.alpha",
      "coast.color", "coast.linewidth", "coast.zorder", "colorbar.edgecolor",
      "colorbar.extend", "colorbar.facecolor", "colorbar.fancybox",
      "colorbar.framealpha", "colorbar.frameon", "colorbar.grid",
      "colorbar.insetextend", "colorbar.insetlength", "colorbar.insetpad",
      "colorbar.insetwidth", "colorbar.length", "colorbar.loc",
      "colorbar.rasterized", "colorbar.shadow", "colorbar.width", "cycle", "edgefix",
      "font.large", "font.largesize", "font.name", "font.small", "font.smallsize",
      "formatter.limits", "formatter.min_exponent", "formatter.offset_threshold",
      "formatter.timerotation", "formatter.use_locale", "formatter.use_mathtext",
      "formatter.use_offset", "formatter.zerotrim", "geo.backend", "geo.extent",
      "geo.round", "grid", "grid.below", "grid.checkoverlap", "grid.dmslabels",
      "grid.geolabels", "grid.inlinelabels", "grid.labelcolor", "grid.labelpad",
      "grid.labels", "grid.labelsize", "grid.labelweight", "grid.nsteps", "grid.pad",
      "grid.rotatelabels", "grid.style", "grid.width", "grid.widthratio",
      "gridminor", "gridminor.alpha", "gridminor.color", "gridminor.linestyle",
      "gridminor.linewidth", "gridminor.style", "gridminor.width", "inlineformat",
      "innerborders", "innerborders.alpha", "innerborders.color",
      "innerborders.linewidth", "innerborders.zorder", "label.color", "label.pad",
      "label.size", "label.weight", "lakes", "lakes.alpha", "lakes.color",
      "lakes.zorder", "land", "land.alpha", "land.color", "land.zorder",
      "leftlabel.color", "leftlabel.pad", "leftlabel.rotation", "leftlabel.size",
      "leftlabel.weight", "margin", "meta.color", "meta.edgecolor", "meta.linewidth",
      "meta.width", "negcolor", "ocean", "ocean.alpha", "ocean.color",
      "ocean.zorder", "poscolor", "reso", "rightlabel.color", "rightlabel.pad",
      "rightlabel.rotation", "rightlabel.size", "rightlabel.weight", "rivers",
      "rivers.alpha", "rivers.color", "rivers.linewidth", "rivers.zorder", "style",
      "subplots.align", "subplots.equalspace", "subplots.groupspace",
      "subplots.innerpad", "subplots.outerpad", "subplots.panelpad",
      "subplots.panelwidth", "subplots.refwidth", "subplots.share", "subplots.span",
      "subplots.tight", "suptitle.color", "suptitle.pad", "suptitle.size",
      "suptitle.weight", "tick.color", "tick.dir", "tick.labelcolor",
      "tick.labelpad", "tick.labelsize", "tick.labelweight", "tick.len",
      "tick.lenratio", "tick.linewidth", "tick.minor", "tick.pad", "tick.width",
      "tick.widthratio", "title.above", "title.bbox", "title.bboxalpha",
      "title.bboxcolor", "title.bboxpad", "title.bboxstyle", "title.border",
      "title.borderwidth", "title.color", "title.loc", "title.pad", "title.size",
      "title.weight", "toplabel.color", "toplabel.pad", "toplabel.rotation",
      "toplabel.size", "toplabel.weight", "unitformat"
    }

\* keys of _rc_matplotlib_override before line 1404
OverrideKeys ==
    {
      "axes.axisbelow", "axes.edgecolor", "axes.formatter.use_mathtext", "axes.grid",
      "axes.grid.which", "axes.labelcolor", "axes.labelpad", "axes.labelsize",
      "axes.labelweight", "axes.linewidth", "axes.titlepad", "axes.titlesize",
      "axes.titleweight", "axes.xmargin", "axes.ymargin", "errorbar.capsize",
      "figure.autolayout", "figure.dpi", "figure.facecolor", "figure.figsize",
      "figure.titlesize", "figure.titleweight", "font.cursive", "font.family",
      "font.fantasy", "font.monospace", "font.sans-serif", "font.serif", "font.size",
      "grid.alpha", "grid.color", "grid.linestyle", "grid.linewidth", "hatch.color",
      "hatch.linewidth", "image.cmap", "legend.borderaxespad", "legend.borderpad",
      "legend.columnspacing", "legend.edgecolor", "legend.facecolor",
      "legend.fancybox", "legend.fontsize", "legend.framealpha",
      "legend.handleheight", "legend.handlelength", "legend.handletextpad",
      "lines.linestyle", "lines.linewidth", "lines.markersize", "mathtext.bf",
      "mathtext.cal", "mathtext.default", "mathtext.fontset", "mathtext.it",
      "mathtext.rm", "mathtext.sf", "mathtext.tt", "patch.facecolor",
      "patch.linewidth", "savefig.bbox", "savefig.directory", "savefig.dpi",
      "savefig.facecolor", "savefig.format", "savefig.transparent", "xtick.color",
      "xtick.direction", "xtick.labelsize", "xtick.major.pad", "xtick.major.size",
      "xtick.major.width", "xtick.minor.pad", "xtick.minor.size",
      "xtick.minor.visible", "xtick.minor.width", "ytick.color", "ytick.direction",
      "ytick.labelsize", "ytick.major.pad", "ytick.major.size", "ytick.major.width",
      "ytick.minor.pad", "ytick.minor.size", "ytick.minor.visible",
      "ytick.minor.width"
    }

\* _rc_matplotlib_override as written at lines 148-235
ShippedOverride ==
       ("axes.axisbelow" :> GRIDBELOW)
    @@ ("axes.formatter.use_mathtext" :> MATHTEXT)
    @@ ("axes.grid" :> TRUE)
    @@ ("axes.grid.which" :> "major")
    @@ ("axes.edgecolor" :> BLACK)
    @@ ("axes.labelcolor" :> BLACK)
    @@ ("axes.labelpad" :> LABELPAD)
    @@ ("axes.labelsize" :> SMALLSIZE)
    @@ ("axes.labelweight" :> "normal")
    @@ ("axes.linewidth" :> LINEWIDTH)
    @@ ("axes.titlepad" :> TITLEPAD)
    @@ ("axes.titlesize" :> LARGESIZE)
    @@ ("axes.titleweight" :> "normal")
    @@ ("axes.xmargin" :> MARGIN)
    @@ ("axes.ymargin" :> MARGIN)
    @@ ("errorbar.capsize" :> 3000)
    @@ ("figure.autolayout" :> FALSE)
    @@ ("figure.figsize" :> << 4000, 4000 >>)
    @@ ("figure.dpi" :> 100000)
    @@ ("figure.facecolor" :> "#f4f4f4")
    @@ ("figure.titlesize" :> LARGESIZE)
    @@ ("figure.titleweight" :> "bold")
    @@ ("font.serif" :> FONTS_SERIF)
    @@ ("font.sans-serif" :> FONTS_SANSSERIF)
    @@ ("font.cursive" :> FONTS_CURSIVE)
    @@ ("font.fantasy" :> FONTS_FANTASY)
    @@ ("font.monospace" :> FONTS_MONOSPACE)
    @@ ("font.family" :> FONTNAME)
    @@ ("font.size" :> FONTSIZE)
    @@ ("grid.alpha" :> GRIDALPHA)
    @@ ("grid.color" :> BLACK)
    @@ ("grid.linestyle" :> GRIDSTYLE)
    @@ ("grid.linewidth" :> LINEWIDTH)
    @@ ("hatch.color" :> BLACK)
    @@ ("hatch.linewidth" :> LINEWIDTH)
    @@ ("image.cmap" :> CMAPSEQ)
    @@ ("lines.linestyle" :> "-")
    @@ ("lines.linewidth" :> 1500)
    @@ ("lines.markersize" :> 6000)
    @@ ("legend.borderaxespad" :> 0)
    @@ ("legend.borderpad" :> 500)
    @@ ("legend.columnspacing" :> 1500)
    @@ ("legend.edgecolor" :> BLACK)
    @@ ("legend.facecolor" :> WHITE)
    @@ ("legend.fancybox" :> FALSE)
    @@ ("legend.fontsize" :> SMALLSIZE)
    @@ ("legend.framealpha" :> FRAMEALPHA)
    @@ ("legend.handleheight" :> 1000)
    @@ ("legend.handlelength" :> 2000)
    @@ ("legend.handletextpad" :> 500)
    @@ ("mathtext.default" :> "it")
    @@ ("mathtext.fontset" :> "custom")
    @@ ("mathtext.bf" :> "regular:bold")
    @@ ("mathtext.cal" :> "cursive")
    @@ ("mathtext.it" :> "regular:italic")
    @@ ("mathtext.rm" :> "regular")
    @@ ("mathtext.sf" :> "regular")
    @@ ("mathtext.tt" :> "monospace")
    @@ ("patch.facecolor" :> "C0")
    @@ ("patch.linewidth" :> LINEWIDTH)
    @@ ("savefig.bbox" :> None)
    @@ ("savefig.directory" :> "")
    @@ ("savefig.dpi" :> 1000000)
    @@ ("savefig.facecolor" :> WHITE)
    @@ ("savefig.format" :> "pdf")
    @@ ("savefig.transparent" :> FALSE)
    @@ ("xtick.color" :> BLACK)
    @@ ("xtick.direction" :> TICKDIR)
    @@ ("xtick.labelsize" :> SMALLSIZE)
    @@ ("xtick.major.pad" :> TICKPAD)
    @@ ("xtick.major.size" :> TICKLEN)
    @@ ("xtick.major.width" :> LINEWIDTH)
    @@ ("xtick.minor.pad" :> TICKPAD)
    @@ ("xtick.minor.size" :> Times(TICKLEN, TICKLENRATIO))
    @@ ("xtick.minor.width" :> Times(LINEWIDTH, TICKWIDTHRATIO))
    @@ ("xtick.minor.visible" :> TICKMINOR)
    @@ ("ytick.color" :> BLACK)
    @@ ("ytick.direction" :> TICKDIR)
    @@ ("ytick.labelsize" :> SMALLSIZE)
    @@ ("ytick.major.pad" :> TICKPAD)
    @@ ("ytick.major.size" :> TICKLEN)
    @@ ("ytick.major.width" :> LINEWIDTH)
    @@ ("ytick.minor.pad" :> TICKPAD)
    @@ ("ytick.minor.size" :> Times(TICKLEN, TICKLENRATIO))
    @@ ("ytick.minor.width" :> Times(LINEWIDTH, TICKWIDTHRATIO))
    @@ ("ytick.minor.visible" :> TICKMINOR)

\* _rc_proplot_definition, lines 248-1366: the default of each setting (the
\* validator and the description of an entry are left out)
_rc_proplot_definition ==
       ("style" :> None)
    @@ ("abc" :> FALSE)
    @@ ("abc.border" :> TRUE)
    @@ ("abc.borderwidth" :> 1500)
    @@ ("abc.bbox" :> FALSE)
    @@ ("abc.bboxcolor" :> WHITE)
    @@ ("abc.bboxstyle" :> "square")
    @@ ("abc.bboxalpha" :> 500)
    @@ ("abc.bboxpad" :> None)
    @@ ("abc.color" :> BLACK)
    @@ ("abc.loc" :> "left")
    @@ ("abc.size" :> LARGESIZE)
    @@ ("abc.titlepad" :> LABELPAD)
    @@ ("abc.weight" :> "bold")
    @@ ("autoformat" :> TRUE)
    @@ ("axes.alpha" :> None)
    @@ ("axes.inbounds" :> TRUE)
    @@ ("axes.margin" :> MARGIN)
    @@ ("borders" :> FALSE)
    @@ ("borders.alpha" :> None)
    @@ ("borders.color" :> BLACK)
    @@ ("borders.linewidth" :> LINEWIDTH)
    @@ ("borders.zorder" :> ZLINES)
    @@ ("bottomlabel.color" :> BLACK)
    @@ ("bottomlabel.pad" :> TITLEPAD)
    @@ ("bottomlabel.rotation" :> "horizontal")
    @@ ("bottomlabel.size" :> LARGESIZE)
    @@ ("bottomlabel.weight" :> "bold")
    @@ ("coast" :> FALSE)
    @@ ("coast.alpha" :> None)
    @@ ("coast.color" :> BLACK)
    @@ ("coast.linewidth" :> LINEWIDTH)
    @@ ("coast.zorder" :> ZLINES)
    @@ ("colorbar.edgecolor" :> BLACK)
    @@ ("colorbar.extend" :> 1300)
    @@ ("colorbar.fancybox" :> FALSE)
    @@ ("colorbar.framealpha" :> FRAMEALPHA)
    @@ ("colorbar.facecolor" :> WHITE)
    @@ ("colorbar.frameon" :> TRUE)
    @@ ("colorbar.grid" :> FALSE)
    @@ ("colorbar.insetextend" :> 900)
    @@ ("colorbar.insetlength" :> 8000)
    @@ ("colorbar.insetpad" :> 700)
    @@ ("colorbar.insetwidth" :> 1200)
    @@ ("colorbar.length" :> 1000)
    @@ ("colorbar.loc" :> "right")
    @@ ("colorbar.width" :> 200)
    @@ ("colorbar.rasterized" :> FALSE)
    @@ ("colorbar.shadow" :> FALSE)
    @@ ("cycle" :> CYCLE)
    @@ ("cmap" :> CMAPSEQ)
    @@ ("cmap.autodiverging" :> TRUE)
    @@ ("cmap.qualitative" :> CMAPCAT)
    @@ ("cmap.cyclic" :> CMAPCYC)
    @@ ("cmap.discrete" :> None)
    @@ ("cmap.diverging" :> CMAPDIV)
    @@ ("cmap.inbounds" :> TRUE)
    @@ ("cmap.levels" :> 11000)
    @@ ("cmap.listedthresh" :> 64000)
    @@ ("cmap.lut" :> 256000)
    @@ ("cmap.robust" :> FALSE)
    @@ ("cmap.sequential" :> CMAPSEQ)
    @@ ("edgefix" :> TRUE)
    @@ ("font.name" :> FONTNAME)
    @@ ("font.small" :> SMALLSIZE)
    @@ ("font.smallsize" :> SMALLSIZE)
    @@ ("font.large" :> LARGESIZE)
    @@ ("font.largesize" :> LARGESIZE)
    @@ ("formatter.timerotation" :> "vertical")
    @@ ("formatter.zerotrim" :> TRUE)
    @@ ("formatter.limits" :> << -5000, 6000 >>)
    @@ ("formatter.min_exponent" :> 0)
    @@ ("formatter.offset_threshold" :> 4000)
    @@ ("formatter.use_locale" :> FALSE)
    @@ ("formatter.use_mathtext" :> MATHTEXT)
    @@ ("formatter.use_offset" :> TRUE)
    @@ ("geo.backend" :> "cartopy")
    @@ ("geo.extent" :> "globe")
    @@ ("geo.round" :> TRUE)
    @@ ("grid" :> TRUE)
    @@ ("grid.below" :> GRIDBELOW)
    @@ ("grid.checkoverlap" :> TRUE)
    @@ ("grid.dmslabels" :> TRUE)
    @@ ("grid.geolabels" :> TRUE)
    @@ ("grid.inlinelabels" :> FALSE)
    @@ ("grid.labels" :> FALSE)
    @@ ("grid.labelcolor" :> BLACK)
    @@ ("grid.labelpad" :> GRIDPAD)
    @@ ("grid.labelsize" :> SMALLSIZE)
    @@ ("grid.labelweight" :> "normal")
    @@ ("grid.nsteps" :> 250000)
    @@ ("grid.pad" :> GRIDPAD)
    @@ ("grid.rotatelabels" :> FALSE)
    @@ ("grid.style" :> "-")
    @@ ("grid.width" :> LINEWIDTH)
    @@ ("grid.widthratio" :> GRIDRATIO)
    @@ ("gridminor" :> FALSE)
    @@ ("gridminor.alpha" :> GRIDALPHA)
    @@ ("gridminor.color" :> BLACK)
    @@ ("gridminor.linestyle" :> GRIDSTYLE)
    @@ ("gridminor.linewidth" :> Times(GRIDRATIO, LINEWIDTH))
    @@ ("gridminor.style" :> GRIDSTYLE)
    @@ ("gridminor.width" :> Times(GRIDRATIO, LINEWIDTH))
    @@ ("inlineformat" :> "retina")
    @@ ("innerborders" :> FALSE)
    @@ ("innerborders.alpha" :> None)
    @@ ("innerborders.color" :> BLACK)
    @@ ("innerborders.linewidth" :> LINEWIDTH)
    @@ ("innerborders.zorder" :> ZLINES)
    @@ ("label.color" :> BLACK)
    @@ ("label.pad" :> LABELPAD)
    @@ ("label.size" :> SMALLSIZE)
    @@ ("label.weight" :> "normal")
    @@ ("lakes" :> FALSE)
    @@ ("lakes.alpha" :> None)
    @@ ("lakes.color" :> WHITE)
    @@ ("lakes.zorder" :> ZPATCHES)
    @@ ("land" :> FALSE)
    @@ ("land.alpha" :> None)
    @@ ("land.color" :> BLACK)
    @@ ("land.zorder" :> ZPATCHES)
    @@ ("leftlabel.color" :> BLACK)
    @@ ("leftlabel.pad" :> TITLEPAD)
    @@ ("leftlabel.rotation" :> "vertical")
    @@ ("leftlabel.size" :> LARGESIZE)
    @@ ("leftlabel.weight" :> "bold")
    @@ ("margin" :> MARGIN)
    @@ ("meta.edgecolor" :> BLACK)
    @@ ("meta.color" :> BLACK)
    @@ ("meta.linewidth" :> LINEWIDTH)
    @@ ("meta.width" :> LINEWIDTH)
    @@ ("negcolor" :> "blue7")
    @@ ("poscolor" :> "red7")
    @@ ("ocean" :> FALSE)
    @@ ("ocean.alpha" :> None)
    @@ ("ocean.color" :> WHITE)
    @@ ("ocean.zorder" :> ZPATCHES)
    @@ ("reso" :> "lo")
    @@ ("rightlabel.color" :> BLACK)
    @@ ("rightlabel.pad" :> TITLEPAD)
    @@ ("rightlabel.rotation" :> "vertical")
    @@ ("rightlabel.size" :> LARGESIZE)
    @@ ("rightlabel.weight" :> "bold")
    @@ ("rivers" :> FALSE)
    @@ ("rivers.alpha" :> None)
    @@ ("rivers.color" :> BLACK)
    @@ ("rivers.linewidth" :> LINEWIDTH)
    @@ ("rivers.zorder" :> ZLINES)
    @@ ("subplots.align" :> FALSE)
    @@ ("subplots.equalspace" :> FALSE)
    @@ ("subplots.groupspace" :> TRUE)
    @@ ("subplots.innerpad" :> 1000)
    @@ ("subplots.outerpad" :> 500)
    @@ ("subplots.panelpad" :> 500)
    @@ ("subplots.panelwidth" :> 500)
    @@ ("subplots.refwidth" :> 2500)
    @@ ("subplots.share" :> TRUE)
    @@ ("subplots.span" :> TRUE)
    @@ ("subplots.tight" :> TRUE)
    @@ ("suptitle.color" :> BLACK)
    @@ ("suptitle.pad" :> TITLEPAD)
    @@ ("suptitle.size" :> LARGESIZE)
    @@ ("suptitle.weight" :> "bold")
    @@ ("tick.color" :> BLACK)
    @@ ("tick.dir" :> TICKDIR)
    @@ ("tick.labelcolor" :> BLACK)
    @@ ("tick.labelpad" :> TICKPAD)
    @@ ("tick.labelsize" :> SMALLSIZE)
    @@ ("tick.labelweight" :> "normal")
    @@ ("tick.len" :> TICKLEN)
    @@ ("tick.lenratio" :> TICKLENRATIO)
    @@ ("tick.linewidth" :> LINEWIDTH)
    @@ ("tick.minor" :> TICKMINOR)
    @@ ("tick.pad" :> TICKPAD)
    @@ ("tick.width" :> LINEWIDTH)
    @@ ("tick.widthratio" :> TICKWIDTHRATIO)
    @@ ("title.above" :> TRUE)
    @@ ("title.border" :> TRUE)
    @@ ("title.borderwidth" :> 1500)
    @@ ("title.bbox" :> FALSE)
    @@ ("title.bboxcolor" :> WHITE)
    @@ ("title.bboxstyle" :> "square")
    @@ ("title.bboxalpha" :> 500)
    @@ ("title.bboxpad" :> None)
    @@ ("title.color" :> BLACK)
    @@ ("title.loc" :> "center")
    @@ ("title.pad" :> TITLEPAD)
    @@ ("title.size" :> LARGESIZE)
    @@ ("title.weight" :> "normal")
    @@ ("toplabel.color" :> BLACK)
    @@ ("toplabel.pad" :> TITLEPAD)
    @@ ("toplabel.rotation" :> "horizontal")
    @@ ("toplabel.size" :> LARGESIZE)
    @@ ("toplabel.weight" :> "bold")
    @@ ("unitformat" :> "L")

\* _rc_proplot_removed with the target of a renamed key retired as well
RcProplotRemovedChained ==
       ("rgbcycle" :> << "", "0.6.0" >>)
    @@ ("geogrid.latmax" :> << "Please use ax.format(latmax=N) instead.", "0.6.0" >>)
    @@ ("geogrid.latstep" :> << "Please use ax.format(latlines=N) instead.", "0.6.0" >>)
    @@ ("geogrid.lonstep" :> << "Please use ax.format(lonlines=N) instead.", "0.6.0" >>)
    @@ ("gridminor.latstep" :> << "Please use ax.format(latminorlines=N) instead.", "0.6.0" >>)
    @@ ("gridminor.lonstep" :> << "Please use ax.format(lonminorlines=N) instead.", "0.6.0" >>)
    @@ ("subplots.align" :> << "Please use ax.format(align=...) instead.", "0.11.0" >>)

\* _rc_proplot_removed with a key retired that the synonym table still names
RcProplotRemovedLive ==
       ("rgbcycle" :> << "", "0.6.0" >>)
    @@ ("geogrid.latmax" :> << "Please use ax.format(latmax=N) instead.", "0.6.0" >>)
    @@ ("geogrid.latstep" :> << "Please use ax.format(latlines=N) instead.", "0.6.0" >>)
    @@ ("geogrid.lonstep" :> << "Please use ax.format(lonlines=N) instead.", "0.6.0" >>)
    @@ ("gridminor.latstep" :> << "Please use ax.format(latminorlines=N) instead.", "0.6.0" >>)
    @@ ("gridminor.lonstep" :> << "Please use ax.format(lonminorlines=N) instead.", "0.6.0" >>)
    @@ ("grid.labelpad" :> << "Please use grid.pad instead.", "0.11.0" >>)

\* _rc_proplot_removed: key -> (alternative, version)
RcProplotRemoved ==
       ("rgbcycle" :> << "", "0.6.0" >>)
    @@ ("geogrid.latmax" :> << "Please use ax.format(latmax=N) instead.", "0.6.0" >>)
    @@ ("geogrid.latstep" :> << "Please use ax.format(latlines=N) instead.", "0.6.0" >>)
    @@ ("geogrid.lonstep" :> << "Please use ax.format(lonlines=N) instead.", "0.6.0" >>)
    @@ ("gridminor.latstep" :> << "Please use ax.format(latminorlines=N) instead.", "0.6.0" >>)
    @@ ("gridminor.lonstep" :> << "Please use ax.format(lonminorlines=N) instead.", "0.6.0" >>)

\* _rc_proplot_renamed with a misspelt new key for align
RcProplotRenamedTypo ==
       ("abc.format" :> << "abc", "0.5.0" >>)
    @@ ("align" :> << "subplots.algin", "0.6.0" >>)
    @@ ("axes.facealpha" :> << "axes.alpha", "0.6.0" >>)
    @@ ("geoaxes.edgecolor" :> << "axes.edgecolor", "0.6.0" >>)
    @@ ("geoaxes.facealpha" :> << "axes.alpha", "0.6.0" >>)
    @@ ("geoaxes.facecolor" :> << "axes.facecolor", "0.6.0" >>)
    @@ ("geoaxes.linewidth" :> << "axes.linewidth", "0.6.0" >>)
    @@ ("geogrid.alpha" :> << "grid.alpha", "0.6.0" >>)
    @@ ("geogrid.color" :> << "grid.color", "0.6.0" >>)
    @@ ("geogrid.labels" :> << "grid.labels", "0.6.0" >>)
    @@ ("geogrid.labelpad" :> << "grid.pad", "0.6.0" >>)
    @@ ("geogrid.labelsize" :> << "grid.labelsize", "0.6.0" >>)
    @@ ("geogrid.linestyle" :> << "grid.linestyle", "0.6.0" >>)
    @@ ("geogrid.linewidth" :> << "grid.linewidth", "0.6.0" >>)
    @@ ("share" :> << "subplots.share", "0.6.0" >>)
    @@ ("small" :> << "font.smallsize", "0.6.0" >>)
    @@ ("large" :> << "font.largesize", "0.6.0" >>)
    @@ ("span" :> << "subplots.span", "0.6.0" >>)
    @@ ("tight" :> << "subplots.tight", "0.6.0" >>)
    @@ ("axes.formatter.timerotation" :> << "formatter.timerotation", "0.6.0" >>)
    @@ ("axes.formatter.zerotrim" :> << "formatter.zerotrim", "0.6.0" >>)
    @@ ("abovetop" :> << "title.above", "0.7.0" >>)
    @@ ("subplots.pad" :> << "subplots.outerpad", "0.7.0" >>)
    @@ ("subplots.axpad" :> << "subplots.innerpad", "0.7.0" >>)
    @@ ("subplots.axwidth" :> << "subplots.refwidth", "0.7.0" >>)
    @@ ("text.labelsize" :> << "font.smallsize", "0.8.0" >>)
    @@ ("text.titlesize" :> << "font.largesize", "0.8.0" >>)
    @@ ("alpha" :> << "axes.alpha", "0.8.0" >>)
    @@ ("facecolor" :> << "axes.facecolor", "0.8.0" >>)
    @@ ("edgecolor" :> << "meta.color", "0.8.0" >>)
    @@ ("color" :> << "meta.color", "0.8.0" >>)
    @@ ("linewidth" :> << "meta.width", "0.8.0" >>)
    @@ ("lut" :> << "cmap.lut", "0.8.0" >>)
    @@ ("image.levels" :> << "cmap.levels", "0.8.0" >>)
    @@ ("image.inbounds" :> << "cmap.inbounds", "0.8.0" >>)
    @@ ("image.discrete" :> << "cmap.discrete", "0.8.0" >>)
    @@ ("image.edgefix" :> << "edgefix", "0.8.0" >>)
    @@ ("tick.ratio" :> << "tick.widthratio", "0.8.0" >>)
    @@ ("grid.ratio" :> << "grid.widthratio", "0.8.0" >>)
    @@ ("abc.style" :> << "abc", "0.8.0" >>)
    @@ ("grid.loninline" :> << "grid.inlinelabels", "0.8.0" >>)
    @@ ("grid.latinline" :> << "grid.inlinelabels", "0.8.0" >>)
    @@ ("cmap.edgefix" :> << "edgefix", "0.9.0" >>)
    @@ ("basemap" :> << "geo.backend", "0.10.0" >>)
    @@ ("inlinefmt" :> << "inlineformat", "0.10.0" >>)
    @@ ("cartopy.circular" :> << "geo.round", "0.10.0" >>)
    @@ ("cartopy.autoextent" :> << "geo.extent", "0.10.0" >>)
    @@ ("colorbar.rasterize" :> << "colorbar.rasterized", "0.10.0" >>)

\* _rc_proplot_renamed: old key -> (new key, version)
RcProplotRenamed ==
       ("abc.format" :> << "abc", "0.5.0" >>)
    @@ ("align" :> << "subplots.align", "0.6.0" >>)
    @@ ("axes.facealpha" :> << "axes.alpha", "0.6.0" >>)
    @@ ("geoaxes.edgecolor" :> << "axes.edgecolor", "0.6.0" >>)
    @@ ("geoaxes.facealpha" :> << "axes.alpha", "0.6.0" >>)
    @@ ("geoaxes.facecolor" :> << "axes.facecolor", "0.6.0" >>)
    @@ ("geoaxes.linewidth" :> << "axes.linewidth", "0.6.0" >>)
    @@ ("geogrid.alpha" :> << "grid.alpha", "0.6.0" >>)
    @@ ("geogrid.color" :> << "grid.color", "0.6.0" >>)
    @@ ("geogrid.labels" :> << "grid.labels", "0.6.0" >>)
    @@ ("geogrid.labelpad" :> << "grid.pad", "0.6.0" >>)
    @@ ("geogrid.labelsize" :> << "grid.labelsize", "0.6.0" >>)
    @@ ("geogrid.linestyle" :> << "grid.linestyle", "0.6.0" >>)
    @@ ("geogrid.linewidth" :> << "grid.linewidth", "0.6.0" >>)
    @@ ("share" :> << "subplots.share", "0.6.0" >>)
    @@ ("small" :> << "font.smallsize", "0.6.0" >>)
    @@ ("large" :> << "font.largesize", "0.6.0" >>)
    @@ ("span" :> << "subplots.span", "0.6.0" >>)
    @@ ("tight" :> << "subplots.tight", "0.6.0" >>)
    @@ ("axes.formatter.timerotation" :> << "formatter.timerotation", "0.6.0" >>)
    @@ ("axes.formatter.zerotrim" :> << "formatter.zerotrim", "0.6.0" >>)
    @@ ("abovetop" :> << "title.above", "0.7.0" >>)
    @@ ("subplots.pad" :> << "subplots.outerpad", "0.7.0" >>)
    @@ ("subplots.axpad" :> << "subplots.innerpad", "0.7.0" >>)
    @@ ("subplots.axwidth" :> << "subplots.refwidth", "0.7.0" >>)
    @@ ("text.labelsize" :> << "font.smallsize", "0.8.0" >>)
    @@ ("text.titlesize" :> << "font.largesize", "0.8.0" >>)
    @@ ("alpha" :> << "axes.alpha", "0.8.0" >>)
    @@ ("facecolor" :> << "axes.facecolor", "0.8.0" >>)
    @@ ("edgecolor" :> << "meta.color", "0.8.0" >>)
    @@ ("color" :> << "meta.color", "0.8.0" >>)
    @@ ("linewidth" :> << "meta.width", "0.8.0" >>)
    @@ ("lut" :> << "cmap.lut", "0.8.0" >>)
    @@ ("image.levels" :> << "cmap.levels", "0.8.0" >>)
    @@ ("image.inbounds" :> << "cmap.inbounds", "0.8.0" >>)
    @@ ("image.discrete" :> << "cmap.discrete", "0.8.0" >>)
    @@ ("image.edgefix" :> << "edgefix", "0.8.0" >>)
    @@ ("tick.ratio" :> << "tick.widthratio", "0.8.0" >>)
    @@ ("grid.ratio" :> << "grid.widthratio", "0.8.0" >>)
    @@ ("abc.style" :> << "abc", "0.8.0" >>)
    @@ ("grid.loninline" :> << "grid.inlinelabels", "0.8.0" >>)
    @@ ("grid.latinline" :> << "grid.inlinelabels", "0.8.0" >>)
    @@ ("cmap.edgefix" :> << "edgefix", "0.9.0" >>)
    @@ ("basemap" :> << "geo.backend", "0.10.0" >>)
    @@ ("inlinefmt" :> << "inlineformat", "0.10.0" >>)
    @@ ("cartopy.circular" :> << "geo.round", "0.10.0" >>)
    @@ ("cartopy.autoextent" :> << "geo.extent", "0.10.0" >>)
    @@ ("colorbar.rasterize" :> << "colorbar.rasterized", "0.10.0" >>)

----------------------------------------------------------------------------
(* Helpers *)

Range(s) == { s[n] : n \in 1..Len(s) }

EmptyDict == [k \in {} |-> <<>>]

\* dict.get(k, ())
Get(ch, k) == IF k \in DOMAIN ch THEN ch[k] ELSE <<>>

\* ch[k] = v
Put(ch, k, v) == [x \in DOMAIN ch \cup {k} |-> IF x = k THEN v ELSE ch[x]]

\* the keys of S in hash order instead of sorted order: tuple(_set)
unsorted(S) ==
    LET n == Len(KeyOrder)
    IN  SelectSeq([m \in 1..n |-> KeyOrder[n + 1 - m]], LAMBDA k : k \in S)

\* sorted(S) for a set S of keys, as a tuple
sorted(S) == SelectSeq(KeyOrder, LAMBDA k : k \in S)

\* line 1455 without the children of the other members of the group
ClosureSetOwnOnly(keys, key, ch) ==
    (Range(keys) \cup Range(Get(ch, key))) \ {key}

\* line 1455 without the members of the group themselves
ClosureSetNoMembers(keys, key, ch) ==
    UNION { Range(Get(ch, keys[n])) : n \in 1..Len(keys) } \ {key}

\* line 1455 without the final `- {_key}`
ClosureSetKeepSelf(keys, key, ch) ==
    UNION { {keys[n]} \cup Range(Get(ch, keys[n])) : n \in 1..Len(keys) }

\* line 1455 treating parent links as two-way: the parents of _key are added
ClosureSetWithParents(keys, key, ch) ==
    ( UNION { {keys[n]} \cup Range(Get(ch, keys[n])) : n \in 1..Len(keys) }
      \cup { p \in DOMAIN ch : key \in Range(ch[p]) } ) \ {key}

\* line 1455 taking the children of the first member of the group only
ClosureSetFirstMember(keys, key, ch) ==
    (Range(keys) \cup Range(Get(ch, keys[1]))) \ {key}

\* line 1455 following one more level: the children of the children too
ClosureSetGrandchildren(keys, key, ch) ==
    LET near == UNION { {keys[n]} \cup Range(Get(ch, keys[n])) : n \in 1..Len(keys) }
    IN  (near \cup UNION { Range(Get(ch, c)) : c \in near }) \ {key}

\* line 1455:
\* {_ for k in _keys for _ in {k, *_rc_children.get(k, ())}} - {_key}
ClosureSet(keys, key, ch) ==
    UNION { {keys[n]} \cup Range(Get(ch, keys[n])) : n \in 1..Len(keys) } \ {key}

\* lines 1455-1456: one iteration of the inner for
ClosureStep(ch, keys, key) == Put(ch, key, sorted(ClosureSet(keys, key, ch)))

\* the loop of line 1453 moved above the block of line 1409
ProgramOrderLoopEarly == << "L1404", "L1406", "L1453", "L1409", "done" >>

\* lines 1453-1456: the whole loop from position (g, k) of _rc_synonyms
RECURSIVE ClosureLoop(_, _, _, _)
ClosureLoop(syn, ch, g, k) ==
    IF g > Len(syn) THEN ch
    ELSE IF k > Len(syn[g]) THEN ClosureLoop(syn, ch, g + 1, 1)
    ELSE ClosureLoop(syn, ClosureStep(ch, syn[g], syn[g][k]), g, k + 1)

\* the statements of the module body, in the order they run
ProgramOrder == << "L1404", "L1406", "L1409", "L1453", "done" >>

After(line) ==
    LET n == CHOOSE m \in 1..Len(ProgramOrder) : ProgramOrder[m] = line
    IN  ProgramOrder[n + 1]

\* gate keys looked up in _rc_matplotlib_default (lines 1404, 1406, 1409)
GateKeys == { "mathtext.fallback", "axes.titlecolor", "xtick.labelcolor" }

\* the version-conditional blocks run whatever the host table holds
GateAlways(h, key) == TRUE

\* `key in _rc_matplotlib_default` (lines 1404, 1406, 1409)
Gate(h, key) == key \in h

\* Parameters of matplotlib.rcParamsDefault that the tables name without
\* overriding them; every supported matplotlib has them.
HostOther ==
    { "axes.facecolor", "axes.formatter.limits", "axes.formatter.min_exponent",
      "axes.formatter.offset_threshold", "axes.formatter.use_locale",
      "axes.formatter.useoffset", "image.lut" }

\* The keys of _rc_matplotlib_default for a host with gate keys h: the
\* parameters proplot overrides, the ones above, and the gated ones
\* (matplotlib 3.4 added xtick.labelcolor and ytick.labelcolor together).
HostParams(h) ==
    OverrideKeys \cup HostOther \cup h
    \cup (IF "xtick.labelcolor" \in h THEN { "ytick.labelcolor" } ELSE {})

\* the registered options: proplot's own and the host's
Registered(h) == DefinitionKeys \cup HostParams(h)

ShippedKeys ==
    UNION { {k} \cup Range(ShippedChildren[k]) : k \in DOMAIN ShippedChildren }
    \cup UNION { Range(ShippedSynonyms[n]) : n \in 1..Len(ShippedSynonyms) }
    \cup { "title.color", "axes.titlecolor", "xtick.labelcolor", "ytick.labelcolor" }

Values == {0, 1}

----------------------------------------------------------------------------
(* Module initialisation with the shipped tables *)

\* no store call made yet
NoCall ==
    [ op |-> "none", key |-> "", status |-> "none", target |-> "", hint |-> "",
      version |-> "", notice |-> FALSE, value |-> 0 ]

\* no call of _not_none or _pop_items made
NoHelper == [ fn |-> "none" ]

\* a call that has not come back yet
Pending == [ state |-> "pending" ]

\* no call of _kwargs_to_args in progress
ArgsIdle ==
    /\ call = NoHelper
    /\ result = Pending
    /\ options = << >>
    /\ args = << >>
    /\ allow_extra = FALSE
    /\ kwargs = EmptyDict
    /\ idx = 0
    /\ warned = {}
    /\ apc = "idle"
    /\ args0 = << >>
    /\ kwargs0 = EmptyDict

InitModule ==
    /\ host \in SUBSET GateKeys
    /\ pc = ProgramOrder[1]
    /\ _rc_children = ShippedChildren
    /\ _rc_synonyms = ShippedSynonyms
    /\ _rc_matplotlib_override = ShippedOverride
    /\ declared = ShippedChildren
    /\ gi = 1
    /\ ki = 1
    /\ nsets = 0
    /\ outcome = NoCall
    /\ ArgsIdle

Init ==
    /\ InitModule
    /\ values = [k \in ShippedKeys |-> 0]

\* lines 1404-1405
MathtextFallback ==
    /\ pc = "L1404"
    /\ pc' = After(pc)
    /\ _rc_matplotlib_override' =
         IF Gate(host, "mathtext.fallback")
         THEN Put(_rc_matplotlib_override, "mathtext.fallback", "stixsans")
         ELSE _rc_matplotlib_override
    /\ UNCHANGED << host, _rc_children, _rc_synonyms, declared, gi, ki, values, nsets, outcome, argvars >>

\* lines 1406-1408
TitleColor ==
    /\ pc = "L1406"
    /\ pc' = After(pc)
    /\ IF Gate(host, "axes.titlecolor")
       THEN /\ _rc_children' = Put(_rc_children, "title.color", << "axes.titlecolor" >>)
            /\ _rc_matplotlib_override' =
                 Put(_rc_matplotlib_override, "axes.titlecolor", BLACK)
       ELSE UNCHANGED << _rc_children, _rc_matplotlib_override >>
    /\ declared' = _rc_children'
    /\ UNCHANGED << host, _rc_synonyms, gi, ki, values, nsets, outcome, argvars >>

\* lines 1409-1414 without line 1412
TickLabelColorNoMeta ==
    /\ pc = "L1409"
    /\ pc' = After(pc)
    /\ IF Gate(host, "xtick.labelcolor")
       THEN /\ _rc_children' =
                 LET c1 == Put(_rc_children, "tick.labelcolor",
                               << "xtick.labelcolor", "ytick.labelcolor" >>)
                 IN  Put(c1, "grid.labelcolor",
                         << "xtick.labelcolor", "ytick.labelcolor" >>)
            /\ _rc_matplotlib_override' =
                 Put(Put(_rc_matplotlib_override, "xtick.labelcolor", BLACK),
                     "ytick.labelcolor", BLACK)
       ELSE UNCHANGED << _rc_children, _rc_matplotlib_override >>
    /\ declared' = _rc_children'
    /\ UNCHANGED << host, _rc_synonyms, gi, ki, values, nsets, outcome, argvars >>

\* lines 1409-1414
TickLabelColor ==
    /\ pc = "L1409"
    /\ pc' = After(pc)
    /\ IF Gate(host, "xtick.labelcolor")
       THEN /\ _rc_children' =
                 LET c1 == Put(_rc_children, "tick.labelcolor",
                               << "xtick.labelcolor", "ytick.labelcolor" >>)
                     c2 == Put(c1, "grid.labelcolor",
                               << "xtick.labelcolor", "ytick.labelcolor" >>)
                 IN  Put(c2, "meta.color",
                         c2["meta.color"] \o << "xtick.labelcolor", "ytick.labelcolor" >>)
            /\ _rc_matplotlib_override' =
                 Put(Put(_rc_matplotlib_override, "xtick.labelcolor", BLACK),
                     "ytick.labelcolor", BLACK)
       ELSE UNCHANGED << _rc_children, _rc_matplotlib_override >>
    /\ declared' = _rc_children'
    /\ UNCHANGED << host, _rc_synonyms, gi, ki, values, nsets, outcome, argvars >>

\* lines 1453-1456: one iteration of `for _key in _keys`
LoopStep ==
    /\ pc = "L1453"
    /\ gi <= Len(_rc_synonyms)
    /\ LET _keys == _rc_synonyms[gi]
           _key == _keys[ki]
       IN  /\ _rc_children' = ClosureStep(_rc_children, _keys, _key)
           /\ IF ki < Len(_keys)
              THEN /\ ki' = ki + 1
                   /\ gi' = gi
              ELSE /\ ki' = 1
                   /\ gi' = gi + 1
    /\ UNCHANGED << host, pc, _rc_synonyms, _rc_matplotlib_override, declared,
                    values, nsets, outcome, argvars >>

\* line 1453: the outer for is exhausted
LoopExit ==
    /\ pc = "L1453"
    /\ gi > Len(_rc_synonyms)
    /\ pc' = After(pc)
    /\ UNCHANGED << host, _rc_children, _rc_synonyms, _rc_matplotlib_override,
                    declared, gi, ki, values, nsets, outcome, argvars >>

\* The settings store assigns v to key k and to every key of _rc_children[k].
Assign(vals, ch, k, v) ==
    [x \in DOMAIN vals |-> IF x = k \/ x \in Range(Get(ch, k)) THEN v ELSE vals[x]]

StoreSet ==
    /\ pc = "done"
    /\ nsets < MaxSets
    /\ \E k \in DOMAIN values, v \in Values :
         values' = Assign(values, _rc_children, k, v)
    /\ nsets' = nsets + 1
    /\ UNCHANGED << host, pc, _rc_children, _rc_synonyms, _rc_matplotlib_override,
                    declared, gi, ki, outcome, argvars >>

Next ==
    \/ MathtextFallback
    \/ TitleColor
    \/ TickLabelColor
    \/ LoopStep
    \/ LoopExit
    \/ StoreSet

Spec == Init /\ [][Next]_vars

----------------------------------------------------------------------------
(* The settings store with the migration tables: every get and set first    *)
(* translates the key through _rc_proplot_removed and _rc_proplot_renamed.  *)

\* resolve(key) that never consults _rc_proplot_removed
ResolveRenamedOnly(key) ==
    IF key \in DOMAIN RcProplotRenamed
    THEN [ kind |-> "Renamed", key |-> RcProplotRenamed[key][1],
           hint |-> "", version |-> RcProplotRenamed[key][2] ]
    ELSE [ kind |-> "Current", key |-> key, hint |-> "", version |-> "" ]

\* resolve(key): Removed(hint, version), Renamed(new key, version) or Current
Resolve(key) ==
    IF key \in DOMAIN RcProplotRemoved
    THEN [ kind |-> "Removed", key |-> key,
           hint |-> RcProplotRemoved[key][1], version |-> RcProplotRemoved[key][2] ]
    ELSE IF key \in DOMAIN RcProplotRenamed
    THEN [ kind |-> "Renamed", key |-> RcProplotRenamed[key][1],
           hint |-> "", version |-> RcProplotRenamed[key][2] ]
    ELSE [ kind |-> "Current", key |-> key, hint |-> "", version |-> "" ]

RetiredKeys == DOMAIN RcProplotRemoved \cup DOMAIN RcProplotRenamed

RenamedTargets == { RcProplotRenamed[k][1] : k \in DOMAIN RcProplotRenamed }

\* the keys the store is called with: every retired key and every key a
\* retired key is renamed to
CallKeys == RetiredKeys \cup RenamedTargets

\* the outcome of a call that fails: RemovedKeyError or UnknownKeyError
Failure(op, key, r) ==
    [ op |-> op, key |-> key, status |-> "error", target |-> r.key,
      hint |-> r.hint, version |-> r.version, notice |-> FALSE, value |-> 0 ]

\* the outcome of a call that reaches the key r.key
Success(op, key, r, v) ==
    [ op |-> op, key |-> key, status |-> "ok", target |-> r.key,
      hint |-> "", version |-> r.version, notice |-> (r.kind = "Renamed"),
      value |-> v ]

InitStore ==
    /\ InitModule
    /\ values = [k \in Registered(host) |-> 0]

\* set(key, v) through the store
StoreSetKey ==
    /\ pc = "done"
    /\ nsets < MaxSets
    /\ \E key \in CallKeys, v \in Values :
         LET r == Resolve(key)
         IN  IF r.kind = "Removed" \/ r.key \notin DOMAIN values
             THEN /\ outcome' = Failure("set", key, r)
                  /\ values' = values
             ELSE /\ outcome' = Success("set", key, r, v)
                  /\ values' = Assign(values, _rc_children, r.key, v)
    /\ nsets' = nsets + 1
    /\ UNCHANGED << host, pc, _rc_children, _rc_synonyms, _rc_matplotlib_override,
                    declared, gi, ki, argvars >>

\* get(key) through the store
StoreGetKey ==
    /\ pc = "done"
    /\ nsets < MaxSets
    /\ \E key \in CallKeys :
         LET r == Resolve(key)
         IN  IF r.kind = "Removed" \/ r.key \notin DOMAIN values
             THEN outcome' = Failure("get", key, r)
             ELSE outcome' = Success("get", key, r, values[r.key])
    /\ nsets' = nsets + 1
    /\ UNCHANGED << host, pc, _rc_children, _rc_synonyms, _rc_matplotlib_override,
                    declared, gi, ki, values, argvars >>

NextStore ==
    \/ MathtextFallback
    \/ TitleColor
    \/ TickLabelColor
    \/ LoopStep
    \/ LoopExit
    \/ StoreSetKey
    \/ StoreGetKey

SpecStore == InitStore /\ [][NextStore]_vars

----------------------------------------------------------------------------
(* proplot/internals/__init__.py: _kwargs_to_args and _not_none.  A dict    *)
(* whose order is never read (kwargs) is a function; a dict that is         *)
(* iterated (opts, passed to _not_none as **kwargs) is a tuple of           *)
(* <<name, value>> pairs in insertion order.                                *)

\* kwargs.pop(key, None): the value
PopValue(d, k) == IF k \in DOMAIN d THEN d[k] ELSE None

\* kwargs.get(key, None) in place of pop: the dict keeps the key
DictKeep(d, k) == d

\* kwargs.pop(key, None): the dict afterwards
DictPop(d, k) == [x \in DOMAIN d \ {k} |-> d[x]]

\* opts[name] = v on an insertion-ordered dict
DictSet(d, name, v) ==
    IF \E n \in 1..Len(d) : d[n][1] = name
    THEN [n \in 1..Len(d) |-> IF d[n][1] = name THEN << name, v >> ELSE d[n]]
    ELSE Append(d, << name, v >>)

\* _not_none that keeps looking after the first value that is not None
NotNoneLast(posargs, default, kw) ==
    LET some(q) == { n \in 1..Len(q) : q[n] # None }
        vals == [n \in 1..Len(kw) |-> kw[n][2]]
        max(S) == CHOOSE n \in S : \A m \in S : n >= m
    IN  IF Len(posargs) > 0 /\ Len(kw) > 0
        THEN [ raised |-> TRUE, value |-> None, warn |-> FALSE ]
        ELSE IF Len(posargs) > 0
        THEN [ raised |-> FALSE, warn |-> FALSE,
               value |-> IF some(posargs) = {} THEN default
                         ELSE posargs[max(some(posargs))] ]
        ELSE IF Len(kw) > 0
        THEN [ raised |-> FALSE, warn |-> Cardinality(some(vals)) > 1,
               value |-> IF some(vals) = {} THEN default
                         ELSE vals[max(some(vals))] ]
        ELSE [ raised |-> FALSE, value |-> default, warn |-> FALSE ]

\* _not_none that warns as soon as one keyword argument is not None
NotNoneWarnAny(posargs, default, kw) ==
    LET some(q) == { n \in 1..Len(q) : q[n] # None }
        vals == [n \in 1..Len(kw) |-> kw[n][2]]
        min(S) == CHOOSE n \in S : \A m \in S : n <= m
    IN  IF Len(posargs) > 0 /\ Len(kw) > 0
        THEN [ raised |-> TRUE, value |-> None, warn |-> FALSE ]
        ELSE IF Len(posargs) > 0
        THEN [ raised |-> FALSE, warn |-> FALSE,
               value |-> IF some(posargs) = {} THEN default
                         ELSE posargs[min(some(posargs))] ]
        ELSE IF Len(kw) > 0
        THEN [ raised |-> FALSE, warn |-> Cardinality(some(vals)) > 0,
               value |-> IF some(vals) = {} THEN default
                         ELSE vals[min(some(vals))] ]
        ELSE [ raised |-> FALSE, value |-> default, warn |-> FALSE ]

\* _not_none(*args, default=None, **kwargs), lines 36-61: ValueError when
\* both kinds are given, else the first value that is not None, else default;
\* warns when more than one keyword argument is not None
NotNone(posargs, default, kw) ==
    LET some(q) == { n \in 1..Len(q) : q[n] # None }
        vals == [n \in 1..Len(kw) |-> kw[n][2]]
        min(S) == CHOOSE n \in S : \A m \in S : n <= m
    IN  IF Len(posargs) > 0 /\ Len(kw) > 0
        THEN [ raised |-> TRUE, value |-> None, warn |-> FALSE ]
        ELSE IF Len(posargs) > 0
        THEN [ raised |-> FALSE, warn |-> FALSE,
               value |-> IF some(posargs) = {} THEN default
                         ELSE posargs[min(some(posargs))] ]
        ELSE IF Len(kw) > 0
        THEN [ raised |-> FALSE, warn |-> Cardinality(some(vals)) > 1,
               value |-> IF some(vals) = {} THEN default
                         ELSE vals[min(some(vals))] ]
        ELSE [ raised |-> FALSE, value |-> default, warn |-> FALSE ]

\* lines 25-26: a slot given as a str is the 1-tuple of that name
Keys(slot) == IF slot.str THEN << slot.keys[1] >> ELSE slot.keys

\* lines 30-31: for key in keys: opts[key] = kwargs.pop(key, None)
RECURSIVE PopInto(_, _, _, _)
PopInto(keys, n, opts, kw) ==
    IF n > Len(keys) THEN [ opts |-> opts, kwargs |-> kw ]
    ELSE PopInto(keys, n + 1, DictSet(opts, keys[n], PopValue(kw, keys[n])),
                 DictPop(kw, keys[n]))

\* lines 27-31 with the positional value entered after the keywords
SlotOptsKeywordFirst(keys, arg, kw) ==
    LET r == PopInto(keys, 1, << >>, kw)
    IN  [ opts |-> IF arg # None
                   THEN DictSet(r.opts, keys[1] \o "_positional", arg)
                   ELSE r.opts,
          kwargs |-> r.kwargs ]

\* lines 27-31: opts and the kwargs left; the positional value, when not
\* None, is entered first under the name keys[0] + '_positional'
SlotOpts(keys, arg, kw) ==
    PopInto(keys, 1,
            IF arg # None THEN << << keys[1] \o "_positional", arg >> >> ELSE << >>,
            kw)

\* line 20 without `and not allow_extra`
TooManyAlways(nargs, nopts, extra) == nargs > nopts

\* line 20
TooMany(nargs, nopts, extra) == nargs > nopts /\ ~extra

\* The calls: slots over the names of two parameters, up to MaxArgs
\* positional values and up to MaxKw keyword arguments.
ArgSlots ==
    { [ str |-> TRUE, keys |-> << "color" >> ],
      [ str |-> FALSE, keys |-> << "color", "c" >> ],
      [ str |-> FALSE, keys |-> << "c", "color" >> ],
      [ str |-> FALSE, keys |-> << "width", "lw", "linewidth" >> ],
      [ str |-> FALSE, keys |-> << "lw", "linewidth" >> ] }

KwNames == { "color", "c", "width", "lw", "linewidth", "alpha" }

PosValues == { None, "red" }

KwValues == { None, "blue", "2" }

\* lists of slots that share no name
ArgOptions ==
    { o \in UNION { [1..n -> ArgSlots] : n \in 0..MaxSlots } :
        \A a, b \in 1..Len(o) :
          a # b => Range(Keys(o[a])) \cap Range(Keys(o[b])) = {} }

ArgKwargs ==
    UNION { [D -> KwValues] : D \in { E \in SUBSET KwNames : Cardinality(E) <= MaxKw } }

\* The helpers exist from lines 13-112 on, before line 117 imports defaults:
\* the calls start with the tables of defaults.py as they are written there.
InitArgs ==
    /\ host = {}
    /\ pc = "L1404"
    /\ _rc_children = ShippedChildren
    /\ _rc_synonyms = ShippedSynonyms
    /\ _rc_matplotlib_override = ShippedOverride
    /\ declared = ShippedChildren
    /\ gi = 1
    /\ ki = 1
    /\ values = [k \in ShippedKeys |-> 0]
    /\ nsets = 0
    /\ outcome = NoCall
    /\ options \in ArgOptions
    /\ args0 \in UNION { [1..n -> PosValues] : n \in 0..MaxArgs }
    /\ kwargs0 \in ArgKwargs
    /\ allow_extra \in BOOLEAN
    /\ args = args0
    /\ kwargs = kwargs0
    /\ idx = 0
    /\ warned = {}
    /\ apc = "L19"
    /\ call = NoHelper
    /\ result = Pending

modvars ==
    << host, pc, _rc_children, _rc_synonyms, _rc_matplotlib_override, declared,
       gi, ki, values, nsets, outcome >>

\* lines 19-23: count the arguments, raise or fill up with None
ArgsCheck ==
    /\ apc = "L19"
    /\ IF TooMany(Len(args), Len(options), allow_extra)
       THEN /\ apc' = "raised"
            /\ args' = args
       ELSE /\ apc' = "L24"
            /\ args' = args \o [n \in 1..(Len(options) - Len(args)) |-> None]
    /\ UNCHANGED << options, allow_extra, kwargs, idx, warned, args0, kwargs0 >>
    /\ UNCHANGED << modvars, call, result >>

\* lines 24-32: one iteration of `for idx, keys in enumerate(options)`
ArgsSlot ==
    /\ apc = "L24"
    /\ idx < Len(options)
    /\ LET i == idx + 1
           keys == Keys(options[i])
           o == SlotOpts(keys, args[i], kwargs)
           r == NotNone(<< >>, None, o.opts)
       IN  /\ kwargs' = o.kwargs
           /\ IF r.raised
              THEN /\ apc' = "raised"
                   /\ UNCHANGED << args, warned >>
              ELSE /\ apc' = apc
                   /\ args' = [args EXCEPT ![i] = r.value]
                   /\ warned' = IF r.warn THEN warned \cup {i} ELSE warned
           /\ idx' = i
    /\ UNCHANGED << options, allow_extra, args0, kwargs0 >>
    /\ UNCHANGED << modvars, call, result >>

\* line 33
ArgsReturn ==
    /\ apc = "L24"
    /\ idx = Len(options)
    /\ apc' = "returned"
    /\ UNCHANGED << options, args, allow_extra, kwargs, idx, warned, args0, kwargs0 >>
    /\ UNCHANGED << modvars, call, result >>

NextArgs ==
    \/ ArgsCheck
    \/ ArgsSlot
    \/ ArgsReturn

SpecArgs == InitArgs /\ [][NextArgs]_vars

----------------------------------------------------------------------------
(* proplot/internals/__init__.py: _not_none and _pop_items called on their  *)
(* own, and _kwargs_to_args as one function of its arguments.  Here the     *)
(* keyword arguments of the caller keep the order they were written in: a   *)
(* dict is a tuple of <<name, value>> pairs in insertion order.             *)

\* d.keys()
OrderedNames(d) == { d[n][1] : n \in 1..Len(d) }

\* d.get(k, None)
OrderedValue(d, k) ==
    IF k \in OrderedNames(d)
    THEN d[CHOOSE n \in 1..Len(d) : d[n][1] = k][2]
    ELSE None

\* kwargs.get(key, None) in place of pop on an ordered dict
OrderedKeep(d, k) == d

\* d.pop(k, None): the dict afterwards
OrderedDel(d, k) == SelectSeq(d, LAMBDA p : p[1] # k)

\* the dict as a mapping: what == compares
AsDict(d) == [k \in OrderedNames(d) |-> OrderedValue(d, k)]

\* opts filled in the order the caller wrote the keywords
OrderedPopIntoCallerOrder(keys, n, opts, kw) ==
    LET listed == SelectSeq(kw, LAMBDA p : p[1] \in Range(keys))
        absent == SelectSeq(keys, LAMBDA k : k \notin OrderedNames(kw))
    IN  [ opts |-> opts \o listed \o [m \in 1..Len(absent) |-> << absent[m], None >>],
          kwargs |-> SelectSeq(kw, LAMBDA p : p[1] \notin Range(keys)) ]

\* lines 30-31 and line 109: opts[key] = kwargs.pop(key, None) for each name
RECURSIVE OrderedPopInto(_, _, _, _)
OrderedPopInto(keys, n, opts, kw) ==
    IF n > Len(keys) THEN [ opts |-> opts, kwargs |-> kw ]
    ELSE OrderedPopInto(keys, n + 1,
                        DictSet(opts, keys[n], OrderedValue(kw, keys[n])),
                        OrderedDel(kw, keys[n]))

\* line 108: aliases given as a str are the 1-tuple of that name
Aliases(a) == IF a.str THEN << a.keys[1] >> ELSE a.keys

\* line 105: aliases.update({key: () for key in keys})
RECURSIVE Update(_, _, _)
Update(aliases, keys, n) ==
    IF n > Len(keys) THEN aliases
    ELSE Update(DictSet(aliases, keys[n], [ str |-> FALSE, keys |-> << >> ]),
                keys, n + 1)

\* lines 106-111: one key per iteration, in the order of aliases.items()
RECURSIVE PopItemsLoop(_, _, _, _, _)
PopItemsLoop(aliases, n, kw, output, warn) ==
    IF n > Len(aliases)
    THEN [ state |-> "returned", output |-> output, kwargs |-> kw, warned |-> warn ]
    ELSE LET key == aliases[n][1]
             o == OrderedPopInto(<< key >> \o Aliases(aliases[n][2]), 1, << >>, kw)
             r == NotNone(<< >>, None, o.opts)
         IN  IF r.raised THEN [ state |-> "raised" ]
             ELSE PopItemsLoop(aliases, n + 1, o.kwargs,
                               IF r.value # None THEN DictSet(output, key, r.value)
                               ELSE output,
                               IF r.warn THEN warn \cup {key} ELSE warn)

\* _pop_items(kwargs, *keys, **aliases), lines 100-112
PopItems(kw, keys, aliases) ==
    PopItemsLoop(Update(aliases, keys, 1), 1, kw, << >>, {})

\* lines 24-32 of _kwargs_to_args on keyword arguments that keep their order
RECURSIVE KwargsToArgsLoop(_, _, _, _, _)
KwargsToArgsLoop(opts, n, a, kw, warn) ==
    IF n > Len(opts)
    THEN [ state |-> "returned", args |-> a, kwargs |-> kw, warned |-> warn ]
    ELSE LET keys == Keys(opts[n])
             o == OrderedPopInto(
                      keys, 1,
                      IF a[n] # None THEN << << keys[1] \o "_positional", a[n] >> >>
                      ELSE << >>,
                      kw)
             r == NotNone(<< >>, None, o.opts)
         IN  IF r.raised THEN [ state |-> "raised" ]
             ELSE KwargsToArgsLoop(opts, n + 1, [a EXCEPT ![n] = r.value], o.kwargs,
                                   IF r.warn THEN warn \cup {n} ELSE warn)

\* _kwargs_to_args(options, *args, allow_extra, **kwargs), lines 13-33
KwargsToArgs(opts, a, extra, kw) ==
    IF TooMany(Len(a), Len(opts), extra) THEN [ state |-> "raised" ]
    ELSE KwargsToArgsLoop(opts, 1,
                          a \o [n \in 1..(Len(opts) - Len(a)) |-> None], kw, {})

\* The calls.
Injective(q) == \A a, b \in 1..Len(q) : a # b => q[a] # q[b]

\* keyword arguments as the caller wrote them: up to MaxKw names, any order
OrderedKwargs ==
    UNION { { [n \in 1..Len(names) |-> << names[n], v[n] >>] :
                v \in [1..Len(names) -> KwValues] } :
            names \in { q \in UNION { [1..n -> KwNames] : n \in 0..MaxKw } :
                          Injective(q) } }

NotNoneCalls ==
    [ fn : { "_not_none" },
      args : UNION { [1..n -> PosValues \cup { "blue" }] : n \in 0..2 },
      default : { None, "black" },
      kwargs : OrderedKwargs ]

\* the keys and the aliases of a call of _pop_items: no name is given twice
PopKeys == { << >>, << "alpha" >>, << "alpha", "width" >> }

PopAliases ==
    { << >>,
      << << "color", [ str |-> FALSE, keys |-> << "c" >> ] >> >>,
      << << "lw", [ str |-> TRUE, keys |-> << "linewidth" >> ] >> >>,
      << << "color", [ str |-> FALSE, keys |-> << "c" >> ] >>,
         << "lw", [ str |-> TRUE, keys |-> << "linewidth" >> ] >> >>,
      << << "lw", [ str |-> FALSE, keys |-> << "linewidth", "width" >> ] >> >> }

PopItemsCalls ==
    { c \in [ fn : { "_pop_items" }, kwargs : OrderedKwargs,
              keys : PopKeys, aliases : PopAliases ] :
        \* width is a key or an alias, not both
        ~ ("width" \in Range(c.keys) /\ Len(c.aliases) = 1
             /\ ~c.aliases[1][2].str /\ Len(c.aliases[1][2].keys) = 2) }

KwargsToArgsCalls ==
    [ fn : { "_kwargs_to_args" }, options : ArgOptions,
      args : UNION { [1..n -> PosValues] : n \in 0..1 },
      allow_extra : { FALSE }, kwargs : OrderedKwargs ]

InitHelpers ==
    /\ host = {}
    /\ pc = "L1404"
    /\ _rc_children = ShippedChildren
    /\ _rc_synonyms = ShippedSynonyms
    /\ _rc_matplotlib_override = ShippedOverride
    /\ declared = ShippedChildren
    /\ gi = 1
    /\ ki = 1
    /\ values = [k \in ShippedKeys |-> 0]
    /\ nsets = 0
    /\ outcome = NoCall
    /\ options = << >>
    /\ args = << >>
    /\ allow_extra = FALSE
    /\ kwargs = EmptyDict
    /\ idx = 0
    /\ warned = {}
    /\ apc = "idle"
    /\ args0 = << >>
    /\ kwargs0 = EmptyDict
    /\ call \in NotNoneCalls \cup PopItemsCalls \cup KwargsToArgsCalls
    /\ result = Pending

argstate == << options, args, allow_extra, kwargs, idx, warned, apc, args0, kwargs0 >>

CallNotNone ==
    /\ call.fn = "_not_none"
    /\ result = Pending
    /\ LET r == NotNone(call.args, call.default, call.kwargs)
       IN  result' = IF r.raised THEN [ state |-> "raised" ]
                     ELSE [ state |-> "returned", value |-> r.value, warn |-> r.warn ]
    /\ UNCHANGED << modvars, argstate, call >>

CallPopItems ==
    /\ call.fn = "_pop_items"
    /\ result = Pending
    /\ result' = PopItems(call.kwargs, call.keys, call.aliases)
    /\ UNCHANGED << modvars, argstate, call >>

CallKwargsToArgs ==
    /\ call.fn = "_kwargs_to_args"
    /\ result = Pending
    /\ result' = KwargsToArgs(call.options, call.args, call.allow_extra, call.kwargs)
    /\ UNCHANGED << modvars, argstate, call >>

NextHelpers ==
    \/ CallNotNone
    \/ CallPopItems
    \/ CallKwargsToArgs

SpecHelpers == InitHelpers /\ [][NextHelpers]_vars

----------------------------------------------------------------------------
(* The loop of lines 1453-1456 as a function of its inputs: any tuple of    *)
(* synonym groups and any children table over a small key space.            *)

GenKeys == { "A", "B", "C" }

DisjointKeys == { "A", "B", "C", "D" }

\* a group over K: a tuple of 2 or more distinct keys
GenGroups(K) ==
    { g \in UNION { [1..n -> K] : n \in 2..Cardinality(K) } :
        \A a, b \in 1..Len(g) : a # b => g[a] # g[b] }

GenSynonyms(K) == UNION { [1..n -> GenGroups(K)] : n \in 0..MaxGroups }

GenEntries(K) ==
    { sorted(S) : S \in { T \in SUBSET K :
                            Cardinality(T) >= 1 /\ Cardinality(T) <= MaxDeclared } }

GenChildren(K) == UNION { [D -> GenEntries(K)] : D \in SUBSET K }

PairwiseDisjoint(syn) ==
    \A m, n \in 1..Len(syn) : m # n => Range(syn[m]) \cap Range(syn[n]) = {}

DisjointSynonyms == { syn \in GenSynonyms(DisjointKeys) : PairwiseDisjoint(syn) }

InitLoop(K) ==
    /\ host = {}
    /\ pc = "L1453"
    /\ _rc_children \in GenChildren(K)
    /\ _rc_matplotlib_override = EmptyDict
    /\ declared = _rc_children
    /\ gi = 1
    /\ ki = 1
    /\ values = [k \in K |-> 0]
    /\ nsets = 0
    /\ outcome = NoCall
    /\ ArgsIdle

\* any groups, overlapping ones included
InitGen ==
    /\ _rc_synonyms \in GenSynonyms(GenKeys)
    /\ InitLoop(GenKeys)

\* groups that share no key, as in the shipped _rc_synonyms
InitDisjoint ==
    /\ _rc_synonyms \in DisjointSynonyms
    /\ InitLoop(DisjointKeys)

NextGen ==
    \/ LoopStep
    \/ LoopExit

SpecGen == InitGen /\ [][NextGen]_vars

SpecDisjoint == InitDisjoint /\ [][NextGen]_vars

----------------------------------------------------------------------------
(* Properties *)

Done == pc = "done"

Ch(k) == Range(Get(_rc_children, k))

Groups == { Range(_rc_synonyms[n]) : n \in 1..Len(_rc_synonyms) }

GroupKeys == UNION Groups

SameGroup(a, b) == \E G \in Groups : a \in G /\ b \in G

LoopStarted == gi > 1 \/ ki > 1

LoopEnded == gi > Len(_rc_synonyms)

\* C1: after any sequence of store assignments, all members of every synonym
\* group hold the same value.
SynonymsAgree ==
    \A G \in Groups : \A a, b \in G : values[a] = values[b]

NoSelfLoops ==
    Done => \A k \in DOMAIN _rc_children : k \notin Ch(k)

NoSelfLoopsWitness ==
    /\ Done
    /\ "meta.edgecolor" \in Ch("meta.color")
    /\ "meta.color" \in Ch("meta.edgecolor")
    /\ "grid.color" \in DOMAIN _rc_children \ GroupKeys

\* C4: with groups {A,B} and {B,C} listed in that order, after the loop C is a
\* child of A and A is a child of C.
Transitivity ==
    Done =>
      \A a, b, c \in GenKeys :
        ( /\ Cardinality({a, b, c}) = 3
          /\ \E m, n \in 1..Len(_rc_synonyms) :
               /\ m < n
               /\ Range(_rc_synonyms[m]) = {a, b}
               /\ Range(_rc_synonyms[n]) = {b, c} )
        => c \in Ch(a) /\ a \in Ch(c)

\* C5: the table the loop produces is a fixed point: running the loop again
\* over the same groups changes no entry.
FixedPoint ==
    Done => ClosureLoop(_rc_synonyms, _rc_children, 1, 1) = _rc_children

\* C6: after the loop, for every synonym group G and every k in G, the
\* children of k are G together with the declared children of all members of
\* G, minus k itself.
ClosureFormula ==
    Done =>
      \A G \in Groups : \A k \in G :
        Ch(k) = (G \cup UNION { Range(Get(declared, m)) : m \in G }) \ {k}

ClosureFormulaWitness ==
    /\ Done
    /\ "gridminor.linewidth" \in Range(declared["grid.linewidth"])
    /\ "grid.width" \notin DOMAIN declared
    /\ Ch("grid.width") = { "grid.linewidth", "gridminor.linewidth" }

\* C7: after the loop the children table is transitively closed: a child of
\* a child of k is a child of k, or k itself.
TransitivelyClosed ==
    Done =>
      \A k \in DOMAIN _rc_children : \A c \in Ch(k) : \A d \in Ch(c) :
        d \in Ch(k) \/ d = k

\* C8: after the loop, a declared parent p of a child c outside p's synonym
\* group is neither a child of c nor a child of any synonym of c.
OneWay ==
    Done =>
      \A p \in DOMAIN declared : \A c \in Range(declared[p]) :
        ~SameGroup(p, c) =>
          /\ p \notin Ch(c)
          /\ \A G \in Groups : c \in G => \A s \in G : p \notin Ch(s)

OneWayWitness ==
    /\ Done
    /\ "tick.width" \in Range(declared["meta.width"])
    /\ Ch("tick.width") = { "tick.linewidth", "xtick.major.width", "ytick.major.width" }
    /\ "tick.width" \in Ch("tick.linewidth")

Rank(k) == CHOOSE n \in 1..Len(KeyOrder) : KeyOrder[n] = k

StrictlyAscending(s) ==
    \A m, n \in 1..Len(s) : m < n => Rank(s[m]) < Rank(s[n])

\* C9: after the loop, the entry of every key that belongs to a synonym group
\* is a strictly ascending tuple of keys.
SortedEntries ==
    Done => \A k \in GroupKeys : StrictlyAscending(_rc_children[k])

SortedEntriesWitness ==
    /\ Done
    /\ "xtick.labelcolor" \in host
    /\ { "xtick.labelcolor", "ytick.labelcolor" } \subseteq Ch("meta.color")
    /\ declared["meta.color"] # _rc_children["meta.color"]

\* C10: every change of the children table made outside the loop is made
\* before the loop's first step, and nothing changes the table once the loop
\* has ended.
InitOrder ==
    [][ _rc_children' # _rc_children =>
          IF pc = "L1453" THEN ~LoopEnded ELSE ~LoopStarted ]_vars

InitOrderWitness ==
    /\ Done
    /\ { "axes.titlecolor", "xtick.labelcolor" } \subseteq host
    /\ "title.color" \in DOMAIN _rc_children
    /\ "xtick.labelcolor" \in Ch("grid.labelcolor")
    /\ nsets > 0

TableKeys ==
    DOMAIN _rc_children \cup UNION { Range(_rc_children[k]) : k \in DOMAIN _rc_children }

\* C11: every key of a synonym group or of the children table, parent or
\* child, is a registered option: a key of _rc_proplot_definition or a
\* parameter of the host's default table.
KeyExistence ==
    GroupKeys \cup TableKeys \subseteq Registered(host)

KeyExistenceWitness ==
    /\ Done
    /\ "axes.titlecolor" \in Ch("title.color")
    /\ "ytick.labelcolor" \in Ch("meta.color")
    /\ "ytick.labelcolor" \notin DefinitionKeys

\* C12: when a synonym group names a key that is no registered option, the
\* build does not end with a children table that contains that key.
UnknownKeyFatal ==
    \A k \in GroupKeys :
      k \notin Registered(host) => ~(Done /\ k \in TableKeys)

\* C13: the new key of a renamed entry is itself neither renamed nor removed,
\* so the key a renamed key resolves to is a current key.
NoChains ==
    /\ \A old \in DOMAIN RcProplotRenamed :
         RcProplotRenamed[old][1] \notin RetiredKeys
    /\ outcome.key \in DOMAIN RcProplotRenamed =>
         Resolve(outcome.target).kind = "Current"

NoChainsWitness ==
    /\ outcome.op = "set"
    /\ outcome.key = "small"
    /\ outcome.target = "font.smallsize"
    /\ values["font.smallsize"] = 1

\* C14: a call on a renamed key reaches exactly the recorded new key, and
\* that key is a registered option.
RenameCoverage ==
    /\ \A old \in DOMAIN RcProplotRenamed :
         /\ Resolve(old).kind = "Renamed"
         /\ Resolve(old).key = RcProplotRenamed[old][1]
         /\ Resolve(old).key \in Registered(host)
    /\ outcome.key \in DOMAIN RcProplotRenamed =>
         /\ outcome.status = "ok"
         /\ outcome.notice
         /\ outcome.target = RcProplotRenamed[outcome.key][1]
         /\ outcome.target \in DOMAIN values

RenameCoverageWitness ==
    /\ outcome.op = "get"
    /\ outcome.key = "geoaxes.facecolor"
    /\ outcome.target = "axes.facecolor"
    /\ outcome.status = "ok"

\* C15: a get or set on a key of the removed table ends in an error that
\* carries the key's replacement hint and removal version, and leaves the
\* stored values unchanged.
RemovedRejected ==
    [][ (nsets' = nsets + 1 /\ outcome'.key \in DOMAIN RcProplotRemoved) =>
          /\ outcome'.status = "error"
          /\ outcome'.hint = RcProplotRemoved[outcome'.key][1]
          /\ outcome'.version = RcProplotRemoved[outcome'.key][2]
          /\ values' = values ]_vars

RemovedRejectedWitness ==
    /\ outcome.op = "set"
    /\ outcome.key = "geogrid.latmax"
    /\ outcome.status = "error"
    /\ outcome.hint = "Please use ax.format(latmax=N) instead."
    /\ outcome.version = "0.6.0"

\* C16: no removed key and no renamed old key is a key of
\* _rc_proplot_definition, a member of a synonym group or a parent or child
\* of the children table, and no key is both removed and renamed.
RetiredOutside ==
    /\ RetiredKeys \cap (DefinitionKeys \cup GroupKeys \cup TableKeys) = {}
    /\ DOMAIN RcProplotRemoved \cap DOMAIN RcProplotRenamed = {}

RetiredOutsideWitness ==
    /\ Done
    /\ "xtick.labelcolor" \in host
    /\ outcome.key = "rgbcycle"
    /\ outcome.status = "error"


----------------------------------------------------------------------------
(* _kwargs_to_args: what a call returns.                                    *)

Returned == apc = "returned"

SlotNames == UNION { Range(Keys(options[i])) : i \in 1..Len(options) }

\* the keyword aliases of slot i that the call gave a value other than None,
\* by their position in the slot
GivenAliases(i) ==
    { n \in 1..Len(Keys(options[i])) :
        /\ Keys(options[i])[n] \in DOMAIN kwargs0
        /\ kwargs0[Keys(options[i])[n]] # None }

\* slot i got a positional value other than None
GivenPositional(i) == i <= Len(args0) /\ args0[i] # None

FirstGivenAlias(i) ==
    Keys(options[i])[CHOOSE n \in GivenAliases(i) : \A m \in GivenAliases(i) : n <= m]

\* C17: when a call returns, the value of each slot is the positional
\* argument at that position if one was supplied and is not None, otherwise
\* the first keyword among the slot's names, in declared order, whose value
\* is not None, otherwise None.
Reconciliation ==
    Returned =>
      \A i \in 1..Len(options) :
        args[i] = IF GivenPositional(i) THEN args0[i]
                  ELSE IF GivenAliases(i) # {} THEN kwargs0[FirstGivenAlias(i)]
                  ELSE None

\* slots (color, c), (width, lw, linewidth), positional ('red',) and keyword
\* linewidth=2 resolve to ['red', 2] with no keyword left
ReconciliationWitness ==
    /\ Returned
    /\ options = << [ str |-> FALSE, keys |-> << "color", "c" >> ],
                    [ str |-> FALSE, keys |-> << "width", "lw", "linewidth" >> ] >>
    /\ args0 = << "red" >>
    /\ DOMAIN kwargs0 = { "linewidth" }
    /\ kwargs0["linewidth"] = "2"
    /\ args = << "red", "2" >>
    /\ DOMAIN kwargs = {}

\* C18: when a call returns, the keyword mapping it returns is the input
\* mapping restricted to the names that no slot lists, values unchanged;
\* every name some slot lists is gone, chosen or not, None or not.
Leftover ==
    Returned => kwargs = [k \in DOMAIN kwargs0 \ SlotNames |-> kwargs0[k]]

\* a returned call that consumed a keyword given as None and one that lost
\* to the positional value, and passed an unlisted keyword through
LeftoverWitness ==
    /\ Returned
    /\ \E k \in DOMAIN kwargs0 \cap SlotNames : kwargs0[k] = None
    /\ "alpha" \in DOMAIN kwargs
    /\ kwargs["alpha"] # None

\* C19: the call ends in the error outcome exactly when it has more
\* positional arguments than slots and allow_extra is false, and then no
\* slot was resolved and no keyword consumed; a call that returns gives
\* max(nargs, nslots) values, the extra positional ones unchanged in place.
TooManyPositional ==
    /\ apc # "L19" =>
         (apc = "raised" <=> (Len(args0) > Len(options) /\ ~allow_extra))
    /\ apc = "raised" =>
         /\ args = args0
         /\ kwargs = kwargs0
         /\ idx = 0
         /\ warned = {}
    /\ Returned =>
         /\ Len(args) = IF Len(args0) > Len(options) THEN Len(args0) ELSE Len(options)
         /\ \A i \in (Len(options) + 1)..Len(args0) : args[i] = args0[i]

\* 3 positional arguments against 2 slots, extras not allowed
TooManyPositionalWitness ==
    /\ apc = "raised"
    /\ Len(args0) = 3
    /\ Len(options) = 2
    /\ ~allow_extra

\* C20 as stated: a resolved slot raised the warning if and only if two or
\* more of its keyword aliases were not None, the positional value not
\* counted; the call never fails while resolving.
WarnOnKeywordsOnly ==
    /\ \A i \in 1..idx : i \in warned <=> Cardinality(GivenAliases(i)) >= 2
    /\ apc = "raised" => idx = 0

\* C20, corrected: a resolved slot raised the warning if and only if two or
\* more of its candidates were not None, the candidates being its positional
\* value and its keyword aliases; the call never fails while resolving.
WarnOnCandidates ==
    /\ \A i \in 1..idx :
         i \in warned <=>
           Cardinality(GivenAliases(i)) + (IF GivenPositional(i) THEN 1 ELSE 0) >= 2
    /\ apc = "raised" => idx = 0

\* a returned call whose first slot got a positional value and exactly one
\* keyword alias, and warned
WarnOnCandidatesWitness ==
    /\ Returned
    /\ Len(options) >= 1
    /\ GivenPositional(1)
    /\ Cardinality(GivenAliases(1)) = 1
    /\ 1 \in warned

----------------------------------------------------------------------------
(* _not_none and _pop_items: what a call gives back.                        *)

Called(fn) == call.fn = fn /\ result # Pending

\* the values a call of _not_none chooses from, in the order they were passed
Candidates ==
    IF Len(call.args) > 0 THEN call.args
    ELSE [n \in 1..Len(call.kwargs) |-> call.kwargs[n][2]]

NotNoneAt(q) == { n \in 1..Len(q) : q[n] # None }

\* C23: _not_none ends in a ValueError exactly when it is given positional
\* and keyword candidates together; otherwise it returns the first candidate
\* that is not None in the order passed (keywords: the caller's order), or
\* default when there is no such candidate, and it warns exactly when the
\* candidates are keywords and more than one of them is not None.
NotNoneContract ==
    Called("_not_none") =>
      /\ result.state = "raised" <=> (Len(call.args) > 0 /\ Len(call.kwargs) > 0)
      /\ result.state = "returned" =>
           /\ \A n \in NotNoneAt(Candidates) :
                (\A m \in NotNoneAt(Candidates) : n <= m) =>
                  result.value = Candidates[n]
           /\ NotNoneAt(Candidates) = {} => result.value = call.default
           /\ result.warn <=>
                (Len(call.args) = 0 /\ Cardinality(NotNoneAt(Candidates)) > 1)

\* _not_none(c='blue', color='2') returns 'blue' and warns
NotNoneContractWitness ==
    /\ Called("_not_none")
    /\ call.args = << >>
    /\ call.kwargs = << << "c", "blue" >>, << "color", "2" >> >>
    /\ result.state = "returned"
    /\ result.value = "blue"
    /\ result.warn

\* the keys a call of _pop_items asks for
RequestedKeys ==
    Range(call.keys) \cup { call.aliases[n][1] : n \in 1..Len(call.aliases) }

\* a requested key followed by its aliases in declared order
NamesOf(key) ==
    << key >> \o
      (IF \E n \in 1..Len(call.aliases) : call.aliases[n][1] = key
       THEN Aliases(call.aliases[CHOOSE n \in 1..Len(call.aliases) :
                                   call.aliases[n][1] = key][2])
       ELSE << >>)

RequestedNames == UNION { Range(NamesOf(key)) : key \in RequestedKeys }

\* the positions in NamesOf(key) whose keyword the caller gave a value other
\* than None
GivenNames(key) ==
    { n \in 1..Len(NamesOf(key)) : OrderedValue(call.kwargs, NamesOf(key)[n]) # None }

\* C25: _pop_items removes every requested key and every alias of it from
\* the caller's keywords and leaves the other keywords as they were; the
\* output maps a requested key to the first value that is not None among
\* the key and then its aliases in declared order, and has no entry for a
\* key whose candidates are all None or absent.
PopItemsContract ==
    Called("_pop_items") =>
      /\ result.state = "returned"
      /\ result.kwargs = SelectSeq(call.kwargs, LAMBDA p : p[1] \notin RequestedNames)
      /\ OrderedNames(result.output) \subseteq RequestedKeys
      /\ \A key \in RequestedKeys :
           IF GivenNames(key) = {}
           THEN key \notin OrderedNames(result.output)
           ELSE /\ key \in OrderedNames(result.output)
                /\ \A n \in GivenNames(key) :
                     (\A m \in GivenNames(key) : n <= m) =>
                       OrderedValue(result.output, key)
                         = OrderedValue(call.kwargs, NamesOf(key)[n])

\* _pop_items({'linewidth': 2, 'alpha': 'blue'}, color=('c',),
\* lw='linewidth') gives {'lw': 2} and leaves {'alpha': 'blue'}
PopItemsContractWitness ==
    /\ Called("_pop_items")
    /\ call.keys = << >>
    /\ Len(call.aliases) = 2
    /\ call.kwargs = << << "linewidth", "2" >>, << "alpha", "blue" >> >>
    /\ result.output = << << "lw", "2" >> >>
    /\ result.kwargs = << << "alpha", "blue" >> >>

\* the same keyword arguments written in every order
Reorderings(d) == { q \in [1..Len(d) -> Range(d)] : Injective(q) }

\* the aliases of slot i of call.options the caller gave a value other than
\* None, by their position in the slot
GivenInSlot(i) ==
    { n \in 1..Len(Keys(call.options[i])) :
        OrderedValue(call.kwargs, Keys(call.options[i])[n]) # None }

\* C21: when several keyword aliases of one slot or key are not None (and no
\* positional value takes precedence), _kwargs_to_args and _pop_items choose
\* the value of the alias that is first in declared order; and the same
\* keyword mapping written in any other order gives the same outcome, the
\* same resolved values and the same leftover keywords.
TieBreak ==
    /\ Called("_kwargs_to_args") =>
         /\ result.state = "returned" =>
              \A i \in 1..Len(call.options) :
                (Cardinality(GivenInSlot(i)) > 1 /\ ~(i <= Len(call.args) /\ call.args[i] # None))
                  => \A n \in GivenInSlot(i) :
                       (\A m \in GivenInSlot(i) : n <= m) =>
                         result.args[i] = OrderedValue(call.kwargs, Keys(call.options[i])[n])
         /\ \A q \in Reorderings(call.kwargs) :
              LET r == KwargsToArgs(call.options, call.args, call.allow_extra, q)
              IN  /\ r.state = result.state
                  /\ r.state = "returned" =>
                       /\ r.args = result.args
                       /\ AsDict(r.kwargs) = AsDict(result.kwargs)
    /\ Called("_pop_items") =>
         /\ \A key \in RequestedKeys :
              Cardinality(GivenNames(key)) > 1 =>
                \A n \in GivenNames(key) :
                  (\A m \in GivenNames(key) : n <= m) =>
                    OrderedValue(result.output, key)
                      = OrderedValue(call.kwargs, NamesOf(key)[n])
         /\ \A q \in Reorderings(call.kwargs) :
              LET r == PopItems(q, call.keys, call.aliases)
              IN  /\ r.state = result.state
                  /\ AsDict(r.output) = AsDict(result.output)
                  /\ AsDict(r.kwargs) = AsDict(result.kwargs)

\* slot (color, c) with the keywords written as c='blue', color='2' resolves
\* to '2', the value of the alias declared first
TieBreakWitness ==
    /\ Called("_kwargs_to_args")
    /\ call.options = << [ str |-> FALSE, keys |-> << "color", "c" >> ] >>
    /\ call.args = << >>
    /\ call.kwargs = << << "c", "blue" >>, << "color", "2" >> >>
    /\ result.state = "returned"
    /\ result.args = << "2" >>
    /\ result.kwargs = << >>

----------------------------------------------------------------------------
(* The children table while and after it is built.                          *)

\* C22: a reader that looks at _rc_children at any moment of the build never
\* finds the closure applied to only some keys: whenever a member of a
\* synonym group lists another member, that member lists it back.
NoPartialClosure ==
    \A G \in Groups : \A a, b \in G :
      (a # b /\ b \in Ch(a)) => a \in Ch(b)

Tables == << _rc_children, _rc_synonyms, _rc_matplotlib_override >>

\* the keys a table mentions: parents, children, group members, overrides
Mentioned ==
    DOMAIN _rc_children \cup UNION { Ch(k) : k \in DOMAIN _rc_children }
      \cup GroupKeys \cup DOMAIN _rc_matplotlib_override

\* C24: each version-conditional block changes the tables if and only if
\* its gate key is in the host default table.  With xtick.labelcolor in the
\* host, the final entries of tick.labelcolor and grid.labelcolor contain
\* each other and both tick label colours, and the final entry of meta.color
\* contains both; without it no table ever mentions either.  The final
\* title.color has the child axes.titlecolor iff the host has axes.titlecolor.
GatedExtension ==
    /\ [](/\ "xtick.labelcolor" \notin host =>
               { "xtick.labelcolor", "ytick.labelcolor" } \cap Mentioned = {}
          /\ (Done /\ "xtick.labelcolor" \in host) =>
               /\ { "grid.labelcolor", "xtick.labelcolor", "ytick.labelcolor" }
                    \subseteq Ch("tick.labelcolor")
               /\ { "tick.labelcolor", "xtick.labelcolor", "ytick.labelcolor" }
                    \subseteq Ch("grid.labelcolor")
               /\ { "xtick.labelcolor", "ytick.labelcolor" } \subseteq Ch("meta.color")
          /\ Done => ("axes.titlecolor" \in Ch("title.color")
                        <=> "axes.titlecolor" \in host))
    /\ [][ /\ pc = "L1404" => (Tables' # Tables <=> "mathtext.fallback" \in host)
           /\ pc = "L1406" => (Tables' # Tables <=> "axes.titlecolor" \in host)
           /\ pc = "L1409" => (Tables' # Tables <=> "xtick.labelcolor" \in host) ]_vars

\* the build has ended on a host that has xtick.labelcolor but not
\* axes.titlecolor
GatedExtensionWitness ==
    /\ Done
    /\ "xtick.labelcolor" \in host
    /\ "axes.titlecolor" \notin host
    /\ "ytick.labelcolor" \in Ch("meta.color")
    /\ "axes.titlecolor" \notin Ch("title.color")

\* C26: the shipped synonym groups share no key, and once the loop has
\* ended every iteration of a second pass would store the entry that is
\* already there, so a second pass leaves the table unchanged.
SecondPassUnchanged ==
    /\ PairwiseDisjoint(_rc_synonyms)
    /\ Done =>
         \A g \in 1..Len(_rc_synonyms) : \A k \in 1..Len(_rc_synonyms[g]) :
           ClosureStep(_rc_children, _rc_synonyms[g], _rc_synonyms[g][k]) = _rc_children

\* the loop has ended on a host with every gate key, and the group of
\* tick.labelcolor holds the children declared at lines 1410-1411
SecondPassUnchangedWitness ==
    /\ Done
    /\ host = GateKeys
    /\ Len(_rc_synonyms) = 32
    /\ "ytick.labelcolor" \in Ch("grid.labelcolor")
    /\ ClosureStep(_rc_children, _rc_synonyms[27], "tick.labelcolor") = _rc_children

\* the groups of syn written in one fixed order: keys sorted inside each
\* group, groups sorted by their first key
Canonical(syn) ==
    LET groups == [n \in 1..Len(syn) |-> sorted(Range(syn[n]))]
        firsts == sorted({ groups[n][1] : n \in 1..Len(syn) })
    IN  [i \in 1..Len(firsts) |->
           groups[CHOOSE n \in 1..Len(syn) : groups[n][1] = firsts[i]]]

\* C27: for synonym groups that share no key, written in any order with the
\* keys of each group in any order, the table the loop ends with is the
\* table it builds from the same groups in the one canonical order; so all
\* orders of the same groups end with the same table.
OrderIndependent ==
    (Done /\ PairwiseDisjoint(_rc_synonyms)) =>
      ClosureLoop(Canonical(_rc_synonyms), declared, 1, 1) = _rc_children

\* groups (D, C) and (B, A), written against the canonical order, with
\* declared children that the closure has to carry over, after the loop
OrderIndependentWitness ==
    /\ Done
    /\ _rc_synonyms = << << "D", "C" >>, << "B", "A" >> >>
    /\ Canonical(_rc_synonyms) = << << "A", "B" >>, << "C", "D" >> >>
    /\ "B" \in DOMAIN declared
    /\ declared["B"] = << "C" >>
    /\ "D" \in DOMAIN declared
    /\ declared["D"] = << "A" >>
    /\ _rc_children["A"] = << "B", "C" >>

----------------------------------------------------------------------------
(* The default tables.                                                      *)

\* the keys that have a default in one of the two tables
HasDefault == DOMAIN _rc_proplot_definition \cup DOMAIN _rc_matplotlib_override

\* the default of such a key
Default(k) ==
    IF k \in DOMAIN _rc_proplot_definition THEN _rc_proplot_definition[k]
    ELSE _rc_matplotlib_override[k]

\* C28: in every synonym group, the members that have a default in
\* _rc_proplot_definition or _rc_matplotlib_override all have the same
\* default, at every moment of the module body and before any assignment to
\* the store.
DefaultsAgree ==
    \A G \in Groups : \A a, b \in G \cap HasDefault : Default(a) = Default(b)

\* the module body has ended on a host with every gate key; grid.linestyle
\* takes its default from _rc_matplotlib_override and its synonym grid.style
\* from _rc_proplot_definition
DefaultsAgreeWitness ==
    /\ Done
    /\ nsets = 0
    /\ host = GateKeys
    /\ "grid.linestyle" \in DOMAIN _rc_matplotlib_override
    /\ "grid.linestyle" \notin DOMAIN _rc_proplot_definition
    /\ Default("grid.linestyle") = "-"
    /\ Default("grid.style") = "-"
    /\ Default("meta.width") = 600

============================================================================
